---------------------------- MODULE Spec2Model ----------------------------
(***************************************************************************)
(* A model of the audit-trail package: the entry builder, the audit        *)
(* service (validation and orchestration) and the MongoDB repository       *)
(* (insert with retry, filter construction, paginated find, point lookup). *)
(* The document store is modelled at the interface the repository uses:    *)
(* InsertOne, CountDocuments, Find with sort/skip/limit and FindOne.       *)
(***************************************************************************)
EXTENDS Integers, Sequences, FiniteSets, TLC

(***************************************************************************)
(* Bounds of the model.                                                    *)
(***************************************************************************)
MaxRetriesBound == 2   \* config.MaxRetries ranges over 0..MaxRetriesBound
MaxStore == 3          \* Insert calls start only while the store is smaller
MaxTime == 2           \* timestamps range over 1..MaxTime (0: the zero time)
MaxPage == 2           \* Limit and Offset range over -1..MaxPage
MaxObjectIDs == 3      \* NewObjectID is called at most this many times
MaxBuilders == 1       \* builders created in one behaviour
MaxDelay == 1          \* config.RetryDelay ranges over 0..MaxDelay (seconds)
MaxChanges == 4        \* AddChange calls on one builder
MaxServices == 2       \* services (each with its repository) constructed

Callers == {"c1", "c2"}

\* A service is named by the order of its construction; "none" is the nil
\* service.  Each service has a repository of its own (NewService).
ServiceName(n) == IF n = 1 THEN "svc" ELSE "svc" \o ToString(n)
Services == {ServiceName(n) : n \in 1..MaxServices}

(***************************************************************************)
(* types.go: the closed enums.                                             *)
(***************************************************************************)
ActorTypes == {"user", "system", "service", "api", "admin"}
AuditActions == {"create", "update", "delete", "login", "logout", "view", "export"}

(***************************************************************************)
(* config.go: Config (the pool settings and the connect timeout, which no  *)
(* code of the package reads back, are left out).  Durations are in        *)
(* seconds.                                                                *)
(***************************************************************************)
DefaultConfig ==
    [MongoURI |-> "mongodb://localhost:27017", DatabaseName |-> "audit",
     CollectionName |-> "audit_logs", MaxRetries |-> 3, RetryDelay |-> 1,
     BatchSize |-> 1000, EnableIndexes |-> TRUE]

\* The zero Config: the value of a repository that was never constructed.
ZeroConfig ==
    [MongoURI |-> "", DatabaseName |-> "", CollectionName |-> "",
     MaxRetries |-> 0, RetryDelay |-> 0, BatchSize |-> 0,
     EnableIndexes |-> FALSE]

\* Config.Validate: the field and message of the first failed check, <<>>
\* when the configuration is valid.
\* A faulty variant: a zero batch size is accepted.
ValidateZeroBatch(c) ==
    IF c.MongoURI = "" THEN <<"MongoURI", "cannot be empty">>
    ELSE IF c.DatabaseName = "" THEN <<"DatabaseName", "cannot be empty">>
    ELSE IF c.CollectionName = "" THEN <<"CollectionName", "cannot be empty">>
    ELSE IF c.MaxRetries < 0 THEN <<"MaxRetries", "cannot be negative">>
    ELSE IF c.RetryDelay < 0 THEN <<"RetryDelay", "cannot be negative">>
    ELSE IF c.BatchSize < 0 THEN <<"BatchSize", "must be positive">>
    ELSE <<>>

Validate(c) ==
    IF c.MongoURI = "" THEN <<"MongoURI", "cannot be empty">>
    ELSE IF c.DatabaseName = "" THEN <<"DatabaseName", "cannot be empty">>
    ELSE IF c.CollectionName = "" THEN <<"CollectionName", "cannot be empty">>
    ELSE IF c.MaxRetries < 0 THEN <<"MaxRetries", "cannot be negative">>
    ELSE IF c.RetryDelay < 0 THEN <<"RetryDelay", "cannot be negative">>
    ELSE IF c.BatchSize <= 0 THEN <<"BatchSize", "must be positive">>
    ELSE <<>>

(***************************************************************************)
(* primitive.ObjectID: 12 bytes; the zero value is NilObjectID.            *)
(***************************************************************************)
ObjectIDLen == 12
NilObjectID == [i \in 1..ObjectIDLen |-> 0]
OID(b) == [i \in 1..ObjectIDLen |-> b]
IsZeroID(id) == id = NilObjectID

\* primitive.NewObjectID(): four bytes of the creation time, five bytes that
\* are fixed for the process, and a three-byte counter that is incremented
\* on every call.
NewObjectID(now, counter) ==
    [i \in 1..ObjectIDLen |->
        IF i <= 4 THEN now
        ELSE IF i <= 9 THEN 255
        ELSE IF i = 10 THEN (counter \div 65536) % 256
        ELSE IF i = 11 THEN (counter \div 256) % 256
        ELSE counter % 256]

(***************************************************************************)
(* Hexadecimal identifier strings, as sequences of characters.             *)
(***************************************************************************)
HexLower == <<"0","1","2","3","4","5","6","7","8","9","a","b","c","d","e","f">>
HexUpper == <<"0","1","2","3","4","5","6","7","8","9","A","B","C","D","E","F">>
IsHexDigit(ch) == \E k \in 1..16 : HexLower[k] = ch \/ HexUpper[k] = ch
HexVal(ch) == (CHOOSE k \in 1..16 : HexLower[k] = ch \/ HexUpper[k] = ch) - 1

\* ObjectID.Hex(): two lower-case digits per byte.
Hex(id) ==
    [i \in 1..(2 * ObjectIDLen) |->
        IF i % 2 = 1 THEN HexLower[(id[(i + 1) \div 2] \div 16) + 1]
        ELSE HexLower[(id[i \div 2] % 16) + 1]]
HexUp(id) ==
    [i \in 1..(2 * ObjectIDLen) |->
        IF i % 2 = 1 THEN HexUpper[(id[(i + 1) \div 2] \div 16) + 1]
        ELSE HexUpper[(id[i \div 2] % 16) + 1]]

\* primitive.ObjectIDFromHex: fails unless the string holds exactly 24
\* hexadecimal digits (either case); otherwise decodes them pairwise.
ValidHex(s) ==
    /\ Len(s) = 2 * ObjectIDLen
    /\ \A i \in 1..Len(s) : IsHexDigit(s[i])
\* A faulty variant: the two digits of each byte are swapped.
ObjectIDFromHexSwapped(s) ==
    [i \in 1..ObjectIDLen |-> HexVal(s[2 * i - 1]) + 16 * HexVal(s[2 * i])]
ObjectIDFromHex(s) ==
    [i \in 1..ObjectIDLen |-> 16 * HexVal(s[2 * i - 1]) + HexVal(s[2 * i])]

(***************************************************************************)
(* Errors: a message, the attempt count a wrapped insert failure names,    *)
(* and the wrapped cause.                                                  *)
(***************************************************************************)
Err(msg, n, cause) == [msg |-> msg, attempts |-> n, cause |-> cause]
NoErr == Err("", 0, "")

(***************************************************************************)
(* types.go: AuditEntry (Actor and AuditResource flattened).  A zero       *)
(* Timestamp is 0, a zero ID is NilObjectID.                               *)
(***************************************************************************)
ZeroEntry ==
    [ID |-> NilObjectID, Timestamp |-> 0, Action |-> "",
     ActorID |-> "", ActorType |-> "", SessionID |-> "",
     ResourceType |-> "", ResourceID |-> "",
     Success |-> FALSE, ErrorMsg |-> ""]

\* A well-formed entry that the inputs below vary.
BaseEntry ==
    [ZeroEntry EXCEPT !.Action = "create", !.ActorID = "u1",
                      !.ActorType = "user", !.ResourceType = "doc",
                      !.ResourceID = "r1", !.Success = TRUE]

(***************************************************************************)
(* service: validateAuditEntry.  Returns the message of the first failed   *)
(* check, "" when the entry is valid.                                      *)
(***************************************************************************)
\* A faulty variant: the resource id is not checked.
validateAuditEntryNoResourceID(entry) ==
    IF entry.Action = "" THEN "action cannot be empty"
    ELSE IF entry.ActorID = "" THEN "actor ID cannot be empty"
    ELSE IF entry.ActorType = "" THEN "actor type cannot be empty"
    ELSE IF entry.ResourceType = "" THEN "resource type cannot be empty"
    ELSE IF entry.ActorType \notin ActorTypes THEN "invalid actor type"
    ELSE IF entry.Action \notin AuditActions THEN "invalid action"
    ELSE ""

validateAuditEntry(entry) ==
    IF entry.Action = "" THEN "action cannot be empty"
    ELSE IF entry.ActorID = "" THEN "actor ID cannot be empty"
    ELSE IF entry.ActorType = "" THEN "actor type cannot be empty"
    ELSE IF entry.ResourceType = "" THEN "resource type cannot be empty"
    ELSE IF entry.ResourceID = "" THEN "resource ID cannot be empty"
    ELSE IF entry.ActorType \notin ActorTypes THEN "invalid actor type"
    ELSE IF entry.Action \notin AuditActions THEN "invalid action"
    ELSE ""


(***************************************************************************)
(* types.go: AuditQuery.  A nil pointer (StartTime, EndTime, Success) is   *)
(* the empty sequence, a set pointer the one-element sequence.             *)
(***************************************************************************)
ZeroQuery ==
    [ActorID |-> "", ActorType |-> "", SessionID |-> "", Actions |-> <<>>,
     ResourceType |-> "", ResourceID |-> "",
     StartTime |-> <<>>, EndTime |-> <<>>, Success |-> <<>>,
     Limit |-> 0, Offset |-> 0]

Range(seq) == {seq[i] : i \in 1..Len(seq)}

(***************************************************************************)
(* service: validateAuditQuery.  Returns the message of the first failed   *)
(* check, "" when the query is valid.                                      *)
(***************************************************************************)
\* A faulty variant: only the first listed action is checked.
validateAuditQueryFirstActionOnly(query) ==
    IF query.Limit < 0 THEN "limit cannot be negative"
    ELSE IF query.Offset < 0 THEN "offset cannot be negative"
    ELSE IF /\ query.StartTime # <<>> /\ query.EndTime # <<>>
            /\ query.StartTime[1] > query.EndTime[1]
         THEN "start time cannot be after end time"
    ELSE IF query.ActorType # "" /\ query.ActorType \notin ActorTypes
         THEN "invalid actor type"
    ELSE IF Len(query.Actions) > 0 /\ query.Actions[1] \notin AuditActions
         THEN "invalid action"
    ELSE ""

validateAuditQuery(query) ==
    IF query.Limit < 0 THEN "limit cannot be negative"
    ELSE IF query.Offset < 0 THEN "offset cannot be negative"
    ELSE IF /\ query.StartTime # <<>> /\ query.EndTime # <<>>
            /\ query.StartTime[1] > query.EndTime[1]
         THEN "start time cannot be after end time"
    ELSE IF query.ActorType # "" /\ query.ActorType \notin ActorTypes
         THEN "invalid actor type"
    ELSE IF \E i \in 1..Len(query.Actions) : query.Actions[i] \notin AuditActions
         THEN "invalid action"
    ELSE ""

(***************************************************************************)
(* mongo_repo.go: buildFilter.  The filter document maps each key to <<>>  *)
(* (key absent) or to a one-element sequence holding the value to match.   *)
(***************************************************************************)
EmptyFilter ==
    [actor_id |-> <<>>, actor_type |-> <<>>, actor_session_id |-> <<>>,
     action_in |-> <<>>, resource_type |-> <<>>, resource_id |-> <<>>,
     success |-> <<>>, timestamp_gte |-> <<>>, timestamp_lte |-> <<>>]

\* A faulty variant: the end of the time range is exclusive.
buildFilterExclusiveEnd(query) ==
    [actor_id |-> IF query.ActorID # "" THEN <<query.ActorID>> ELSE <<>>,
     actor_type |-> IF query.ActorType # "" THEN <<query.ActorType>> ELSE <<>>,
     actor_session_id |-> IF query.SessionID # "" THEN <<query.SessionID>> ELSE <<>>,
     action_in |-> IF Len(query.Actions) > 0 THEN <<Range(query.Actions)>> ELSE <<>>,
     resource_type |-> IF query.ResourceType # "" THEN <<query.ResourceType>> ELSE <<>>,
     resource_id |-> IF query.ResourceID # "" THEN <<query.ResourceID>> ELSE <<>>,
     success |-> query.Success,
     timestamp_gte |-> query.StartTime,
     timestamp_lte |-> IF query.EndTime # <<>> THEN <<query.EndTime[1] - 1>> ELSE <<>>]

buildFilter(query) ==
    [actor_id |-> IF query.ActorID # "" THEN <<query.ActorID>> ELSE <<>>,
     actor_type |-> IF query.ActorType # "" THEN <<query.ActorType>> ELSE <<>>,
     actor_session_id |-> IF query.SessionID # "" THEN <<query.SessionID>> ELSE <<>>,
     action_in |-> IF Len(query.Actions) > 0 THEN <<Range(query.Actions)>> ELSE <<>>,
     resource_type |-> IF query.ResourceType # "" THEN <<query.ResourceType>> ELSE <<>>,
     resource_id |-> IF query.ResourceID # "" THEN <<query.ResourceID>> ELSE <<>>,
     success |-> query.Success,
     timestamp_gte |-> query.StartTime,
     timestamp_lte |-> query.EndTime]

(***************************************************************************)
(* The state.                                                              *)
(***************************************************************************)
VARIABLES
    config,           \* per service: its repository's Config
    client,           \* per service: its repository's client: "none" (not
                      \* constructed), "connected" or "disconnected"
    indexes,          \* the indexes of the collection
    store,            \* the collection: the set of persisted documents
    objectIDCounter,  \* the driver's ObjectID counter
    defaultService,   \* builder.go: the package-level default service
    heap,             \* the maps and the arrays allocated so far
    builder,          \* one AuditBuilder: its entry and its bound service
    built,            \* the entry the last Build() returned
    builtRefs,        \* the Metadata and Changes fields of that entry
    pc,               \* per caller: where its call of the service stands
    op,               \* per caller: the operation called
    arg,              \* per caller: the arguments of the call
    cancelled,        \* per caller: whether the call's context is cancelled
    ins,              \* per caller: Insert's locals (entry, attempt, err)
    fnd,              \* per caller: FindByQuery's locals (filter, total)
    ret,              \* per caller: what the call returned
    obs               \* per caller: what the call did to the store so far

vars == <<config, client, indexes, heap, builtRefs, store, objectIDCounter,
          defaultService, builder, built, pc, op, arg, cancelled, ins, fnd,
          ret, obs>>

(***************************************************************************)
(* The document store, at the interface the repository uses.               *)
(***************************************************************************)
StoreErrors == {"network", "timeout"}

\* The error of every operation on a client after Disconnect.
ErrClientDisconnected == "client is disconnected"

\* The indexes EnsureIndexes creates, each named by its keys; none of them
\* is unique.
RepositoryIndexes ==
    {"actor.id_1_timestamp_-1", "actor.type_1_timestamp_-1",
     "actor.session_id_1_timestamp_-1",
     "resource.type_1_resource.id_1_timestamp_-1",
     "action_1_timestamp_-1", "timestamp_-1",
     "actor.id_1_actor.type_1_timestamp_-1"}

\* collection.InsertOne(ctx, doc): the possible outcomes, each the store
\* afterwards and the error reported.  A cancelled context fails the call
\* before anything is written; _id is unique in a collection; a write can
\* be applied although its acknowledgement is lost.
\* A faulty variant: a write under an identifier that is present replaces
\* the document that holds it.
InsertOneReplacing(st, doc, ctxCancelled) ==
    IF ctxCancelled
    THEN {[store |-> st, err |-> "context canceled"]}
    ELSE {[store |-> st, err |-> e] : e \in StoreErrors}
         \cup {[store |-> {d \in st : d.ID # doc.ID} \cup {doc}, err |-> ""]}
InsertOne(st, doc, ctxCancelled) ==
    IF ctxCancelled
    THEN {[store |-> st, err |-> "context canceled"]}
    ELSE {[store |-> st, err |-> e] : e \in StoreErrors}
         \cup (IF \E d \in st : d.ID = doc.ID
               THEN {[store |-> st, err |-> "duplicate key"]}
               ELSE {[store |-> st \cup {doc}, err |-> ""],
                     [store |-> st \cup {doc}, err |-> "timeout"]})

\* Whether a document satisfies a filter document: equality on each key
\* that is present, $in on action, $gte / $lte on timestamp.
Matches(doc, filter) ==
    /\ filter.actor_id # <<>> => doc.ActorID = filter.actor_id[1]
    /\ filter.actor_type # <<>> => doc.ActorType = filter.actor_type[1]
    /\ filter.actor_session_id # <<>> => doc.SessionID = filter.actor_session_id[1]
    /\ filter.action_in # <<>> => doc.Action \in filter.action_in[1]
    /\ filter.resource_type # <<>> => doc.ResourceType = filter.resource_type[1]
    /\ filter.resource_id # <<>> => doc.ResourceID = filter.resource_id[1]
    /\ filter.success # <<>> => doc.Success = filter.success[1]
    /\ filter.timestamp_gte # <<>> => doc.Timestamp >= filter.timestamp_gte[1]
    /\ filter.timestamp_lte # <<>> => doc.Timestamp <= filter.timestamp_lte[1]

\* collection.CountDocuments(ctx, filter), when it succeeds.
CountDocuments(st, filter) == Cardinality({d \in st : Matches(d, filter)})

\* The enumerations of a set of documents by timestamp descending; documents
\* with equal timestamps come in any order.
SortedDesc(S) ==
    {s \in [1..Cardinality(S) -> S] :
        /\ \A i, j \in 1..Cardinality(S) : i # j => s[i] # s[j]
        /\ \A i, j \in 1..Cardinality(S) :
              i < j => s[i].Timestamp >= s[j].Timestamp}

\* The part of a sequence after the first skip elements, cut to limit
\* elements when a limit is set (limit = 0: no limit).
Page(s, skip, limit) ==
    LET rest == SubSeq(s, skip + 1, Len(s))
    IN  IF limit > 0 /\ Len(rest) > limit THEN SubSeq(rest, 1, limit) ELSE rest

\* collection.Find(ctx, filter, sort timestamp -1, skip, limit) followed by
\* cursor.All, when both succeed: the possible results.
Find(st, filter, skip, limit) ==
    {Page(s, skip, limit) : s \in SortedDesc({d \in st : Matches(d, filter)})}

\* collection.FindOne(ctx, {_id: id}): the documents it can return.
FindOne(st, id) == {d \in st : d.ID = id}

(***************************************************************************)
(* Per-call bookkeeping.                                                   *)
(***************************************************************************)
\* The arguments of GetResourceHistory / GetActorHistory.
NoHist == [resourceType |-> "", resourceID |-> "", actorID |-> "",
           actorType |-> "", limit |-> 0]

NoObs ==
    [storeOps |-> 0,          \* store operations issued by the call
     connects |-> 0,          \* connections to the store attempted
     inserts |-> 0,           \* InsertOne calls (write attempts)
     sleeps |-> 0,            \* completed retry delays
     insertsCancelled |-> 0,  \* write attempts begun with a cancelled context
     sleepsCancelled |-> 0,   \* delays slept in full with a cancelled context
     delays |-> <<>>,         \* the length of each delay, in order
     written |-> <<>>,        \* the document of each write attempt, in order
     lastErr |-> "",          \* what the latest write attempt reported
     delegated |-> 0,         \* calls of the repository method
     passed |-> ZeroEntry,    \* the entry handed to Repository.Insert
     passedQuery |-> ZeroQuery, \* the query handed to FindByQuery
     passedHist |-> NoHist,   \* the arguments handed to FindByResource/Actor
     counted |-> {},          \* the collection as CountDocuments saw it
     found |-> {}]            \* the collection as Find saw it

NoIns == [entry |-> ZeroEntry, attempt |-> 0, err |-> ""]
NoFnd == [query |-> ZeroQuery, filter |-> EmptyFilter, total |-> 0,
          id |-> NilObjectID, limit |-> 0]
NoArg == [service |-> "none",   \* the receiver of a method call
          entry |-> ZeroEntry, query |-> ZeroQuery, id |-> <<>>,
          hist |-> NoHist, config |-> ZeroConfig]
\* A return value: the error, and the result when there is one (a *AuditEntry
\* for a lookup, a *AuditQueryResult for a query; isNil: the nil pointer).
NoRet ==
    [err |-> NoErr, isNil |-> TRUE, entry |-> ZeroEntry,
     Entries |-> <<>>, Total |-> 0, HasMore |-> FALSE]

Idle(c) == pc[c] \in {"idle", "done"}

\* Insert calls in flight, each of which may still add one document.
Inserting == {c \in Callers : pc[c] \in {"insert", "sleep"}}
StoreHasRoom == Cardinality(store) + Cardinality(Inserting) < MaxStore

(***************************************************************************)
(* mongo_repo.go: Insert.  The defaults are filled before the loop; each   *)
(* loop iteration is one step (InsertAttempt), and so is each delay        *)
(* (InsertSleep).                                                          *)
(***************************************************************************)
\* A faulty variant: the timestamp is always set to the time of the call.
InsertDefaultsStampsAlways(entry, now, fresh) ==
    [entry EXCEPT
        !.Timestamp = now,
        !.ID = IF IsZeroID(entry.ID) THEN fresh ELSE @]
InsertDefaults(entry, now, fresh) ==
    [entry EXCEPT
        !.Timestamp = IF entry.Timestamp = 0 THEN now ELSE @,
        !.ID = IF IsZeroID(entry.ID) THEN fresh ELSE @]

\* Whether the loop goes on to another attempt after a failed one.
\* A faulty variant: one retry too many.
RetryAfterOneTooMany(cfg, attempt) == attempt <= cfg.MaxRetries
RetryAfter(cfg, attempt) == attempt < cfg.MaxRetries

\* The error Insert returns when every attempt failed.
InsertFailed(cfg, err) ==
    Err("failed to insert audit entry after attempts", cfg.MaxRetries + 1, err)

\* The call of Repository.Insert by a caller whose call is at its start.
InsertBegin(c, entry, now) ==
    /\ ins' = [ins EXCEPT ![c] =
                 [entry |-> InsertDefaults(entry, now,
                                NewObjectID(now, objectIDCounter + 1)),
                  attempt |-> 0, err |-> ""]]
    /\ objectIDCounter' =
         IF IsZeroID(entry.ID) THEN objectIDCounter + 1 ELSE objectIDCounter
    /\ pc' = [pc EXCEPT ![c] = "insert"]

\* The document of the write attempt number attempt: the entry as it was
\* before the loop.
\* A faulty variant: every attempt writes under an identifier of its own.
AttemptDocFreshID(entry, attempt) ==
    [entry EXCEPT !.ID[ObjectIDLen] = (@ + attempt) % 256]
AttemptDoc(entry, attempt) == entry

InsertAttempt(c) ==
    /\ pc[c] = "insert"
    /\ \E out \in IF client[arg[c].service] = "connected"
                   THEN InsertOne(store, AttemptDoc(ins[c].entry, ins[c].attempt),
                                  cancelled[c])
                   ELSE {[store |-> store, err |-> ErrClientDisconnected]} :
         /\ store' = out.store
         /\ obs' = [obs EXCEPT
                ![c].storeOps = @ + 1,
                ![c].inserts = @ + 1,
                ![c].written = Append(@, AttemptDoc(ins[c].entry, ins[c].attempt)),
                ![c].insertsCancelled = IF cancelled[c] THEN @ + 1 ELSE @,
                ![c].lastErr = out.err]
         /\ IF out.err = ""
            THEN /\ ret' = [ret EXCEPT ![c] = NoRet]
                 /\ pc' = [pc EXCEPT ![c] = "done"]
                 /\ ins' = [ins EXCEPT ![c].err = ""]
            ELSE IF RetryAfter(config[arg[c].service], ins[c].attempt)
            THEN /\ pc' = [pc EXCEPT ![c] = "sleep"]
                 /\ ins' = [ins EXCEPT ![c].err = out.err]
                 /\ ret' = ret
            ELSE /\ ret' = [ret EXCEPT ![c] =
                               [NoRet EXCEPT !.err =
                                   InsertFailed(config[arg[c].service], out.err)]]
                 /\ pc' = [pc EXCEPT ![c] = "done"]
                 /\ ins' = [ins EXCEPT ![c].err = out.err,
                                       ![c].attempt = @ + 1]
    /\ UNCHANGED <<config, client, indexes, heap, builtRefs, objectIDCounter, defaultService,
                   builder, built, op, arg, cancelled, fnd>>

\* The length of the delay after the failed attempt number attempt.
\* A faulty variant: the delay grows with the attempt number.
RetrySleepGrowing(cfg, attempt) == cfg.RetryDelay * (attempt + 1)
RetrySleep(cfg, attempt) == cfg.RetryDelay

\* time.Sleep(RetryDelay): the delay runs to its end whatever the context.
InsertSleep(c) ==
    /\ pc[c] = "sleep"
    /\ pc' = [pc EXCEPT ![c] = "insert"]
    /\ ins' = [ins EXCEPT ![c].attempt = @ + 1]
    /\ obs' = [obs EXCEPT
           ![c].sleeps = @ + 1,
           ![c].delays = Append(@, RetrySleep(config[arg[c].service],
                                              ins[c].attempt)),
           ![c].sleepsCancelled = IF cancelled[c] THEN @ + 1 ELSE @]
    /\ UNCHANGED <<config, client, indexes, heap, builtRefs, store, objectIDCounter, defaultService, builder,
                   built, op, arg, cancelled, fnd, ret>>

\* The caller cancels the context of its call in flight.
Cancel(c) ==
    /\ pc[c] \in {"insert", "sleep", "count", "find", "findone",
                 "findresource", "findactor"}
    /\ ~cancelled[c]
    /\ cancelled' = [cancelled EXCEPT ![c] = TRUE]
    /\ UNCHANGED <<config, client, indexes, heap, builtRefs, store, objectIDCounter, defaultService, builder,
                   built, pc, op, arg, ins, fnd, ret, obs>>

(***************************************************************************)
(* service: LogAction.  Validation, then Repository.Insert.                *)
(***************************************************************************)
StartCall(c, name, a) ==
    /\ Idle(c)
    /\ op' = [op EXCEPT ![c] = name]
    /\ arg' = [arg EXCEPT ![c] = a]
    /\ cancelled' = [cancelled EXCEPT ![c] = FALSE]

LogAction(s, c, entry, now) ==
    /\ StartCall(c, "LogAction", [NoArg EXCEPT !.service = s, !.entry = entry])
    /\ StoreHasRoom
    /\ objectIDCounter < MaxObjectIDs
    /\ IF validateAuditEntry(entry) # ""
       THEN /\ ret' = [ret EXCEPT ![c] = [NoRet EXCEPT !.err =
                        Err("invalid audit entry", 0, validateAuditEntry(entry))]]
            /\ pc' = [pc EXCEPT ![c] = "done"]
            /\ obs' = [obs EXCEPT ![c] = NoObs]
            /\ UNCHANGED <<ins, objectIDCounter>>
       ELSE /\ InsertBegin(c, entry, now)
            /\ ret' = [ret EXCEPT ![c] = NoRet]
            /\ obs' = [obs EXCEPT ![c] =
                         [NoObs EXCEPT !.delegated = 1, !.passed = entry]]
    /\ UNCHANGED <<config, client, indexes, heap, builtRefs, store, defaultService, builder, built, fnd>>

(***************************************************************************)
(* service: GetHistory, and mongo_repo.go: FindByQuery.  The count and the *)
(* find are two store operations, each one step.                           *)
(***************************************************************************)
GetHistory(s, c, query) ==
    /\ StartCall(c, "GetHistory", [NoArg EXCEPT !.service = s, !.query = query])
    /\ IF validateAuditQuery(query) # ""
       THEN /\ ret' = [ret EXCEPT ![c] = [NoRet EXCEPT !.err =
                        Err("invalid query", 0, validateAuditQuery(query))]]
            /\ pc' = [pc EXCEPT ![c] = "done"]
            /\ obs' = [obs EXCEPT ![c] = NoObs]
            /\ fnd' = fnd
       ELSE /\ fnd' = [fnd EXCEPT ![c] =
                         [NoFnd EXCEPT !.query = query,
                                       !.filter = buildFilter(query)]]
            /\ pc' = [pc EXCEPT ![c] = "count"]
            /\ ret' = [ret EXCEPT ![c] = NoRet]
            /\ obs' = [obs EXCEPT ![c] =
                         [NoObs EXCEPT !.delegated = 1, !.passedQuery = query]]
    /\ UNCHANGED <<config, client, indexes, heap, builtRefs, store, objectIDCounter, defaultService, builder,
                   built, ins>>

\* A read of the store fails when the context is cancelled, and may fail
\* for a reason of the store's own.
ReadErrors(c) ==
    IF client[arg[c].service] # "connected" THEN {ErrClientDisconnected}
    ELSE IF cancelled[c] THEN {"context canceled"}
    ELSE StoreErrors
ReadCanSucceed(c) == client[arg[c].service] = "connected" /\ ~cancelled[c]

FindByQueryCount(c) ==
    /\ pc[c] = "count"
    /\ obs' = [obs EXCEPT ![c].storeOps = @ + 1, ![c].counted = store]
    /\ \/ /\ ReadCanSucceed(c)
          /\ fnd' = [fnd EXCEPT ![c].total = CountDocuments(store, fnd[c].filter)]
          /\ pc' = [pc EXCEPT ![c] = "find"]
          /\ ret' = ret
       \/ \E e \in ReadErrors(c) :
          /\ ret' = [ret EXCEPT ![c] = [NoRet EXCEPT !.err =
                        Err("failed to count documents", 0, e)]]
          /\ pc' = [pc EXCEPT ![c] = "done"]
          /\ fnd' = fnd
    /\ UNCHANGED <<config, client, indexes, heap, builtRefs, store, objectIDCounter, defaultService, builder,
                   built, op, arg, cancelled, ins>>

\* The options FindByQuery builds: a limit and a skip, each set only when
\* the query's value is positive (0: not set).
FindLimit(query) == IF query.Limit > 0 THEN query.Limit ELSE 0
\* A faulty variant: the offset is applied only together with a limit.
FindSkipOnlyWithLimit(query) ==
    IF query.Limit > 0 /\ query.Offset > 0 THEN query.Offset ELSE 0
FindSkip(query) == IF query.Offset > 0 THEN query.Offset ELSE 0

\* A faulty variant: the offset is left out of the comparison.
HasMoreIgnoringOffset(query, n, total) == query.Limit > 0 /\ n < total
HasMore(query, n, total) == query.Limit > 0 /\ query.Offset + n < total

FindByQueryFind(c) ==
    /\ pc[c] = "find"
    /\ obs' = [obs EXCEPT ![c].storeOps = @ + 1, ![c].found = store]
    /\ pc' = [pc EXCEPT ![c] = "done"]
    /\ \/ /\ ReadCanSucceed(c)
          /\ \E entries \in Find(store, fnd[c].filter,
                                 FindSkip(fnd[c].query), FindLimit(fnd[c].query)) :
               ret' = [ret EXCEPT ![c] =
                         [NoRet EXCEPT !.isNil = FALSE,
                                       !.Entries = entries,
                                       !.Total = fnd[c].total,
                                       !.HasMore = HasMore(fnd[c].query,
                                                     Len(entries), fnd[c].total)]]
       \/ \E e \in ReadErrors(c) :
          \E msg \in {"failed to execute query", "failed to decode results"} :
             ret' = [ret EXCEPT ![c] = [NoRet EXCEPT !.err = Err(msg, 0, e)]]
    /\ UNCHANGED <<config, client, indexes, heap, builtRefs, store, objectIDCounter, defaultService, builder,
                   built, op, arg, cancelled, ins, fnd>>

(***************************************************************************)
(* service: GetByID, and mongo_repo.go: FindByID.                          *)
(***************************************************************************)
\* Whether FindByID accepts the identifier string and goes on to the store.
Parses(id) == ValidHex(id)

GetByID(s, c, id) ==
    /\ StartCall(c, "GetByID", [NoArg EXCEPT !.service = s, !.id = id])
    /\ obs' = [obs EXCEPT ![c] =
                 [NoObs EXCEPT !.delegated = IF id = <<>> THEN 0 ELSE 1]]
    /\ IF id = <<>>
       THEN /\ ret' = [ret EXCEPT ![c] = [NoRet EXCEPT !.err =
                        Err("id cannot be empty", 0, "")]]
            /\ pc' = [pc EXCEPT ![c] = "done"]
            /\ fnd' = fnd
       ELSE IF ~Parses(id)
       THEN /\ ret' = [ret EXCEPT ![c] = [NoRet EXCEPT !.err =
                        Err("invalid ID format", 0, "invalid hex")]]
            /\ pc' = [pc EXCEPT ![c] = "done"]
            /\ fnd' = fnd
       ELSE /\ fnd' = [fnd EXCEPT ![c] =
                         [NoFnd EXCEPT !.id = ObjectIDFromHex(id)]]
            /\ pc' = [pc EXCEPT ![c] = "findone"]
            /\ ret' = [ret EXCEPT ![c] = NoRet]
    /\ UNCHANGED <<config, client, indexes, heap, builtRefs, store, objectIDCounter, defaultService, builder,
                   built, ins>>

FindByIDFindOne(c) ==
    /\ pc[c] = "findone"
    /\ obs' = [obs EXCEPT ![c].storeOps = @ + 1, ![c].found = store]
    /\ pc' = [pc EXCEPT ![c] = "done"]
    /\ \/ /\ ReadCanSucceed(c)
          /\ FindOne(store, fnd[c].id) = {}      \* mongo.ErrNoDocuments
          /\ ret' = [ret EXCEPT ![c] = NoRet]
       \/ /\ ReadCanSucceed(c)
          /\ \E d \in FindOne(store, fnd[c].id) :
               ret' = [ret EXCEPT ![c] =
                         [NoRet EXCEPT !.isNil = FALSE, !.entry = d]]
       \/ \E e \in ReadErrors(c) :
             ret' = [ret EXCEPT ![c] = [NoRet EXCEPT !.err =
                        Err("failed to find audit entry", 0, e)]]
    /\ UNCHANGED <<config, client, indexes, heap, builtRefs, store, objectIDCounter, defaultService, builder,
                   built, op, arg, cancelled, ins, fnd>>

(***************************************************************************)
(* service: GetResourceHistory and GetActorHistory, and mongo_repo.go:     *)
(* FindByResource and FindByActor.                                         *)
(***************************************************************************)
\* The checks of GetResourceHistory: the message of the first that fails,
\* "" when none does.
\* A faulty variant: the resource id is not checked.
ResourceHistoryErrorNoID(resourceType, resourceID, limit) ==
    IF resourceType = "" THEN "resource type cannot be empty"
    ELSE IF limit < 0 THEN "limit cannot be negative"
    ELSE ""
ResourceHistoryError(resourceType, resourceID, limit) ==
    IF resourceType = "" THEN "resource type cannot be empty"
    ELSE IF resourceID = "" THEN "resource ID cannot be empty"
    ELSE IF limit < 0 THEN "limit cannot be negative"
    ELSE ""

\* The checks of GetActorHistory.
ActorHistoryError(actorID, actorType, limit) ==
    IF actorID = "" THEN "actor ID cannot be empty"
    ELSE IF limit < 0 THEN "limit cannot be negative"
    ELSE ""

\* The filter documents of FindByResource and FindByActor.
FindByResourceFilter(resourceType, resourceID) ==
    [EmptyFilter EXCEPT !.resource_type = <<resourceType>>,
                        !.resource_id = <<resourceID>>]
\* A faulty variant: the actor type is left out of the filter.
FindByActorFilterNoType(actorID, actorType) ==
    [EmptyFilter EXCEPT !.actor_id = <<actorID>>]
FindByActorFilter(actorID, actorType) ==
    [EmptyFilter EXCEPT !.actor_id = <<actorID>>,
                        !.actor_type = IF actorType # "" THEN <<actorType>>
                                       ELSE <<>>]

\* The limit option of FindByResource / FindByActor (0: not set).
HistoryLimit(limit) == IF limit > 0 THEN limit ELSE 0

\* The call of FindByResource / FindByActor by a caller whose call is at its
\* start: the filter is built and the limit kept for the find.
FindByResourceBegin(c, resourceType, resourceID, limit) ==
    /\ fnd' = [fnd EXCEPT ![c] =
                 [NoFnd EXCEPT
                     !.filter = FindByResourceFilter(resourceType, resourceID),
                     !.limit = limit]]
    /\ pc' = [pc EXCEPT ![c] = "findresource"]

FindByActorBegin(c, actorID, actorType, limit) ==
    /\ fnd' = [fnd EXCEPT ![c] =
                 [NoFnd EXCEPT
                     !.filter = FindByActorFilter(actorID, actorType),
                     !.limit = limit]]
    /\ pc' = [pc EXCEPT ![c] = "findactor"]

\* FindByResource and FindByActor called on the repository itself.
FindByResource(s, c, resourceType, resourceID, limit) ==
    LET hist == [NoHist EXCEPT !.resourceType = resourceType,
                               !.resourceID = resourceID, !.limit = limit]
    IN  /\ StartCall(c, "FindByResource", [NoArg EXCEPT !.service = s, !.hist = hist])
        /\ FindByResourceBegin(c, resourceType, resourceID, limit)
        /\ ret' = [ret EXCEPT ![c] = NoRet]
        /\ obs' = [obs EXCEPT ![c] = NoObs]
        /\ UNCHANGED <<config, client, indexes, heap, builtRefs, store, objectIDCounter,
                       defaultService, builder, built, ins>>

FindByActor(s, c, actorID, actorType, limit) ==
    LET hist == [NoHist EXCEPT !.actorID = actorID, !.actorType = actorType,
                               !.limit = limit]
    IN  /\ StartCall(c, "FindByActor", [NoArg EXCEPT !.service = s, !.hist = hist])
        /\ FindByActorBegin(c, actorID, actorType, limit)
        /\ ret' = [ret EXCEPT ![c] = NoRet]
        /\ obs' = [obs EXCEPT ![c] = NoObs]
        /\ UNCHANGED <<config, client, indexes, heap, builtRefs, store, objectIDCounter,
                       defaultService, builder, built, ins>>

GetResourceHistory(s, c, resourceType, resourceID, limit) ==
    LET hist == [NoHist EXCEPT !.resourceType = resourceType,
                               !.resourceID = resourceID, !.limit = limit]
        msg == ResourceHistoryError(resourceType, resourceID, limit)
    IN  /\ StartCall(c, "GetResourceHistory", [NoArg EXCEPT !.service = s, !.hist = hist])
        /\ IF msg # ""
           THEN /\ ret' = [ret EXCEPT ![c] = [NoRet EXCEPT !.err = Err(msg, 0, "")]]
                /\ pc' = [pc EXCEPT ![c] = "done"]
                /\ obs' = [obs EXCEPT ![c] = NoObs]
                /\ fnd' = fnd
           ELSE /\ FindByResourceBegin(c, resourceType, resourceID, limit)
                /\ ret' = [ret EXCEPT ![c] = NoRet]
                /\ obs' = [obs EXCEPT ![c] =
                             [NoObs EXCEPT !.delegated = 1, !.passedHist = hist]]
        /\ UNCHANGED <<config, client, indexes, heap, builtRefs, store, objectIDCounter,
                       defaultService, builder, built, ins>>

GetActorHistory(s, c, actorID, actorType, limit) ==
    LET hist == [NoHist EXCEPT !.actorID = actorID, !.actorType = actorType,
                               !.limit = limit]
        msg == ActorHistoryError(actorID, actorType, limit)
    IN  /\ StartCall(c, "GetActorHistory", [NoArg EXCEPT !.service = s, !.hist = hist])
        /\ IF msg # ""
           THEN /\ ret' = [ret EXCEPT ![c] = [NoRet EXCEPT !.err = Err(msg, 0, "")]]
                /\ pc' = [pc EXCEPT ![c] = "done"]
                /\ obs' = [obs EXCEPT ![c] = NoObs]
                /\ fnd' = fnd
           ELSE /\ FindByActorBegin(c, actorID, actorType, limit)
                /\ ret' = [ret EXCEPT ![c] = NoRet]
                /\ obs' = [obs EXCEPT ![c] =
                             [NoObs EXCEPT !.delegated = 1, !.passedHist = hist]]
        /\ UNCHANGED <<config, client, indexes, heap, builtRefs, store, objectIDCounter,
                       defaultService, builder, built, ins>>

\* The one store operation of FindByResource / FindByActor: Find with the
\* sort and the limit, then cursor.All.  what names the history in the
\* message of a failed Find.
FindHistory(c, what) ==
    /\ obs' = [obs EXCEPT ![c].storeOps = @ + 1, ![c].found = store]
    /\ pc' = [pc EXCEPT ![c] = "done"]
    /\ \/ /\ ReadCanSucceed(c)
          /\ \E entries \in Find(store, fnd[c].filter, 0,
                                 HistoryLimit(fnd[c].limit)) :
               ret' = [ret EXCEPT ![c] =
                         [NoRet EXCEPT !.isNil = FALSE, !.Entries = entries]]
       \/ \E e \in ReadErrors(c) :
          \E msg \in {what, "failed to decode results"} :
             ret' = [ret EXCEPT ![c] = [NoRet EXCEPT !.err = Err(msg, 0, e)]]
    /\ UNCHANGED <<config, client, indexes, heap, builtRefs, store, objectIDCounter,
                   defaultService, builder, built, op, arg, cancelled, ins, fnd>>

FindByResourceFind(c) ==
    /\ pc[c] = "findresource"
    /\ FindHistory(c, "failed to find resource history")

FindByActorFind(c) ==
    /\ pc[c] = "findactor"
    /\ FindHistory(c, "failed to find actor history")

(***************************************************************************)
(* mongo_repo.go: NewMongoRepository.  The configuration is validated;     *)
(* then the client connects and pings, and the indexes are created when    *)
(* the configuration enables them; any of the three can fail, and then no  *)
(* repository is returned.                                                 *)
(***************************************************************************)
ConstructionFailures(cfg) ==
    {"failed to connect to MongoDB", "failed to ping MongoDB"}
    \cup (IF cfg.EnableIndexes THEN {"failed to create indexes"} ELSE {})

\* What a construction from cfg can come to, over a collection with the
\* indexes idx: whether a repository is returned, the error, the connections
\* attempted, the store operations issued and the indexes afterwards.
NewMongoRepositoryOutcomes(cfg, idx) ==
    IF Validate(cfg) # <<>>
    THEN {[ok |-> FALSE, err |-> Err("invalid config", 0, Validate(cfg)[1]),
           connects |-> 0, storeOps |-> 0, indexes |-> idx]}
    ELSE {[ok |-> TRUE, err |-> NoErr, connects |-> 1,
           storeOps |-> IF cfg.EnableIndexes THEN 2 ELSE 1,
           indexes |-> IF cfg.EnableIndexes
                       THEN idx \cup RepositoryIndexes ELSE idx]}
         \cup
         {[ok |-> FALSE, err |-> Err(msg, 0, e), connects |-> 1,
           storeOps |-> IF msg = "failed to connect to MongoDB" THEN 0
                        ELSE IF msg = "failed to ping MongoDB" THEN 1
                        ELSE 2,
           indexes |-> idx] :
              msg \in ConstructionFailures(cfg), e \in StoreErrors}
         \cup
         {[ok |-> FALSE, err |-> Err(msg, 0, e), connects |-> 1,
           storeOps |-> 2, indexes |-> idx \cup RepositoryIndexes] :
              msg \in ConstructionFailures(cfg) \ {"failed to connect to MongoDB",
                                                  "failed to ping MongoDB"},
              e \in StoreErrors}

\* The services constructed so far, and the name of the next one.
Constructed == {s \in Services : client[s] # "none"}
NextService == ServiceName(Cardinality(Constructed) + 1)

NewMongoRepository(c, cfg) ==
    /\ Cardinality(Constructed) < MaxServices
    /\ StartCall(c, "NewMongoRepository", [NoArg EXCEPT !.config = cfg])
    /\ pc' = [pc EXCEPT ![c] = "done"]
    /\ \E out \in NewMongoRepositoryOutcomes(cfg, indexes) :
         /\ ret' = [ret EXCEPT ![c] =
                      [NoRet EXCEPT !.err = out.err, !.isNil = ~out.ok]]
         /\ obs' = [obs EXCEPT ![c] = [NoObs EXCEPT
                      !.connects = out.connects, !.storeOps = out.storeOps]]
         /\ indexes' = out.indexes
         /\ IF out.ok
            THEN /\ config' = [config EXCEPT ![NextService] = cfg]
                 /\ client' = [client EXCEPT ![NextService] = "connected"]
            ELSE UNCHANGED <<config, client>>
    /\ UNCHANGED <<heap, builtRefs, store, objectIDCounter, defaultService,
                   builder, built, ins, fnd>>

(***************************************************************************)
(* mongo_repo.go: EnsureIndexes and Close (the service's Close calls the   *)
(* repository's).  Each is one operation of the store.                     *)
(***************************************************************************)
\* Indexes().CreateMany: all indexes exist afterwards, or the call fails;
\* a failed call may have created them all the same.
EnsureIndexes(s, c) ==
    /\ StartCall(c, "EnsureIndexes", [NoArg EXCEPT !.service = s])
    /\ pc' = [pc EXCEPT ![c] = "done"]
    /\ obs' = [obs EXCEPT ![c] = [NoObs EXCEPT !.storeOps = 1]]
    /\ \/ /\ client[s] = "connected"
          /\ indexes' = indexes \cup RepositoryIndexes
          /\ ret' = [ret EXCEPT ![c] = NoRet]
       \/ \E e \in IF client[s] = "connected"
                   THEN StoreErrors \cup {"context canceled"}
                   ELSE {ErrClientDisconnected} :
          /\ ret' = [ret EXCEPT ![c] = [NoRet EXCEPT !.err =
                        Err("failed to create indexes", 0, e)]]
          /\ \/ indexes' = indexes
             \/ client[s] = "connected" /\ indexes' = indexes \cup RepositoryIndexes
    /\ UNCHANGED <<config, client, heap, builtRefs, store, objectIDCounter,
                   defaultService, builder, built, ins, fnd>>

\* client.Disconnect: the client is disconnected afterwards; on a client
\* that is not connected the call fails.
Close(s, c) ==
    /\ StartCall(c, "Close", [NoArg EXCEPT !.service = s])
    /\ pc' = [pc EXCEPT ![c] = "done"]
    /\ obs' = [obs EXCEPT ![c] = NoObs]
    /\ IF client[s] = "connected"
       THEN /\ client' = [client EXCEPT ![s] = "disconnected"]
            /\ \E e \in {"", "timeout"} :
                  ret' = [ret EXCEPT ![c] = [NoRet EXCEPT !.err = Err(e, 0, "")]]
       ELSE /\ client' = client
            /\ ret' = [ret EXCEPT ![c] = [NoRet EXCEPT !.err =
                          Err(ErrClientDisconnected, 0, "")]]
    /\ UNCHANGED <<config, indexes, heap, builtRefs, store, objectIDCounter,
                   defaultService, builder, built, ins, fnd>>

(***************************************************************************)
(* builder.go: the AuditBuilder and the package-level default service.     *)
(* A service is "svc" (the service over the repository) or "none" (nil).   *)
(***************************************************************************)
\* The reference fields of an AuditEntry are kept beside its other fields:
\* Metadata is a map (0: nil, otherwise its position in heap.maps), Changes
\* a slice (its array, 0 for none, by position in heap.arrays; its length;
\* its capacity).  A map is the set of its <<key, value>> pairs.
NilSlice == [array |-> 0, len |-> 0, cap |-> 0]
NoRefs == [Metadata |-> 0, Changes |-> NilSlice]
EmptyMap == {}
EmptyHeap == [maps |-> <<>>, arrays |-> <<>>]

NoBuilder == [alive |-> FALSE, entry |-> ZeroEntry, service |-> "none",
              errorCalled |-> FALSE, serial |-> 0,
              Metadata |-> 0, Changes |-> NilSlice]

BuilderFrame ==
    UNCHANGED <<config, client, indexes, heap, builtRefs, store, objectIDCounter, defaultService, built,
                pc, op, arg, cancelled, ins, fnd, ret, obs>>

SetDefaultService(service) ==
    /\ defaultService' = service
    /\ UNCHANGED <<config, client, indexes, heap, builtRefs, store, objectIDCounter, builder, built,
                   pc, op, arg, cancelled, ins, fnd, ret, obs>>

NewAuditBuilder(now) ==
    /\ objectIDCounter < MaxObjectIDs
    /\ builder.serial < MaxBuilders
    /\ builder' = [alive |-> TRUE,
                   entry |-> [ZeroEntry EXCEPT
                       !.ID = NewObjectID(now, objectIDCounter + 1),
                       !.Timestamp = now],
                   service |-> defaultService,
                   errorCalled |-> FALSE,
                   serial |-> builder.serial + 1,
                   Metadata |-> Len(heap.maps) + 1,
                   Changes |-> NilSlice]
    /\ heap' = [heap EXCEPT !.maps = Append(@, EmptyMap)]
    /\ objectIDCounter' = objectIDCounter + 1
    /\ UNCHANGED <<config, client, indexes, builtRefs, store, defaultService, built,
                   pc, op, arg, cancelled, ins, fnd, ret, obs>>

Action(action) ==
    /\ builder.alive
    /\ builder' = [builder EXCEPT !.entry.Action = action]
    /\ BuilderFrame

Actor(actorID, actorType) ==
    /\ builder.alive
    /\ builder' = [builder EXCEPT !.entry.ActorID = actorID,
                                  !.entry.ActorType = actorType,
                                  !.entry.SessionID = ""]
    /\ BuilderFrame

Session(sessionID) ==
    /\ builder.alive
    /\ builder' = [builder EXCEPT !.entry.SessionID = sessionID]
    /\ BuilderFrame

Resource(resourceType, resourceID) ==
    /\ builder.alive
    /\ builder' = [builder EXCEPT !.entry.ResourceType = resourceType,
                                  !.entry.ResourceID = resourceID]
    /\ BuilderFrame

Success(success) ==
    /\ builder.alive
    /\ builder' = [builder EXCEPT !.entry.Success = success]
    /\ BuilderFrame

\* Error(err): err = "" is the nil error.
Error(err) ==
    /\ builder.alive
    /\ builder' = IF err # ""
                  THEN [builder EXCEPT !.entry.ErrorMsg = err,
                                       !.entry.Success = FALSE,
                                       !.errorCalled = TRUE]
                  ELSE builder
    /\ BuilderFrame

Timestamp(timestamp) ==
    /\ builder.alive
    /\ builder' = [builder EXCEPT !.entry.Timestamp = timestamp]
    /\ BuilderFrame

\* Build(): the entry is returned by value; its map and its slice refer to
\* the map and the array of the builder's entry.
Build ==
    /\ builder.alive
    /\ built' = builder.entry
    /\ builtRefs' = [Metadata |-> builder.Metadata, Changes |-> builder.Changes]
    /\ UNCHANGED <<config, client, indexes, heap, store, objectIDCounter,
                   defaultService, builder, pc, op, arg, cancelled, ins, fnd,
                   ret, obs>>

\* m[key] = value on a map.
MapPut(m, key, value) == {p \in m : p[1] # key} \cup {<<key, value>>}

\* Metadata(key, value): the map is made when it is nil, and written.
Metadata(key, value) ==
    /\ builder.alive
    /\ IF builder.Metadata = 0
       THEN /\ heap' = [heap EXCEPT !.maps = Append(@, MapPut(EmptyMap, key, value))]
            /\ builder' = [builder EXCEPT !.Metadata = Len(heap.maps) + 1]
       ELSE /\ heap' = [heap EXCEPT !.maps[builder.Metadata] = MapPut(@, key, value)]
            /\ builder' = builder
    /\ UNCHANGED <<config, client, indexes, builtRefs, store, objectIDCounter,
                   defaultService, built, pc, op, arg, cancelled, ins, fnd,
                   ret, obs>>

\* The capacity append gives the array it allocates when the slice is full.
GrownCap(cap) == IF cap = 0 THEN 1 ELSE 2 * cap

\* append(slice, x): written in place when the capacity allows, otherwise
\* into a new array that holds a copy of the elements.  The elements of an
\* array beyond the data are zero values.
ZeroChange == [Field |-> "", OldValue |-> "", NewValue |-> ""]

SliceElems(h, sl) ==
    IF sl.array = 0 THEN <<>> ELSE SubSeq(h.arrays[sl.array], 1, sl.len)

AppendInPlace(h, sl, x) ==
    [heap |-> [h EXCEPT !.arrays[sl.array][sl.len + 1] = x],
     slice |-> [sl EXCEPT !.len = @ + 1]]

AppendGrowing(h, sl, x) ==
    [heap |-> [h EXCEPT !.arrays = Append(@,
                  [i \in 1..GrownCap(sl.cap) |->
                      IF i <= sl.len THEN SliceElems(h, sl)[i]
                      ELSE IF i = sl.len + 1 THEN x ELSE ZeroChange])],
     slice |-> [array |-> Len(h.arrays) + 1, len |-> sl.len + 1,
                cap |-> GrownCap(sl.cap)]]

GoAppend(h, sl, x) ==
    IF sl.len < sl.cap THEN AppendInPlace(h, sl, x) ELSE AppendGrowing(h, sl, x)

\* AddChange(field, oldValue, newValue): a nil slice is replaced by an empty
\* one (which has no array either), and the change is appended.
AddChange(field, oldValue, newValue) ==
    /\ builder.alive
    /\ builder.Changes.len < MaxChanges
    /\ LET r == GoAppend(heap, builder.Changes,
                    [Field |-> field, OldValue |-> oldValue, NewValue |-> newValue])
       IN  /\ heap' = r.heap
           /\ builder' = [builder EXCEPT !.Changes = r.slice]
    /\ UNCHANGED <<config, client, indexes, builtRefs, store, objectIDCounter,
                   defaultService, built, pc, op, arg, cancelled, ins, fnd,
                   ret, obs>>

\* The service Log uses: the one the builder was created with.
\* A faulty variant: the default service at the time of the call.
LogServiceCurrentDefault(b) == defaultService
LogService(b) == b.service

\* Log(ctx): the built entry goes to the bound service's LogAction.
Log(c, now) ==
    /\ builder.alive
    /\ IF LogService(builder) = "none"
       THEN /\ StartCall(c, "Log", [NoArg EXCEPT !.entry = builder.entry])
            /\ ret' = [ret EXCEPT ![c] = [NoRet EXCEPT !.err =
                        Err("no audit service configured", 0, "")]]
            /\ pc' = [pc EXCEPT ![c] = "done"]
            /\ obs' = [obs EXCEPT ![c] = NoObs]
            /\ UNCHANGED <<config, client, indexes, heap, builtRefs, store, objectIDCounter, defaultService,
                           builder, built, ins, fnd>>
       ELSE LogAction(LogService(builder), c, builder.entry, now)

\* NewAuditBuilderWithService(service): as NewAuditBuilder, bound to the
\* service given.
NewAuditBuilderWithService(service, now) ==
    /\ objectIDCounter < MaxObjectIDs
    /\ builder.serial < MaxBuilders
    /\ builder' = [alive |-> TRUE,
                   entry |-> [ZeroEntry EXCEPT
                       !.ID = NewObjectID(now, objectIDCounter + 1),
                       !.Timestamp = now],
                   service |-> service,
                   errorCalled |-> FALSE,
                   serial |-> builder.serial + 1,
                   Metadata |-> Len(heap.maps) + 1,
                   Changes |-> NilSlice]
    /\ heap' = [heap EXCEPT !.maps = Append(@, EmptyMap)]
    /\ objectIDCounter' = objectIDCounter + 1
    /\ UNCHANGED <<config, client, indexes, builtRefs, store, defaultService, built,
                   pc, op, arg, cancelled, ins, fnd, ret, obs>>

(***************************************************************************)
(* The package-level convenience functions: each returns                   *)
(* ErrNoServiceConfigured when no default service is set and calls the     *)
(* default service otherwise.                                              *)
(***************************************************************************)
ErrNoServiceConfigured == Err("no audit service configured", 0, "")

\* The nil check of the convenience functions.
\* A faulty variant: no service is taken for nil.
IsNilServiceNever(service) == FALSE
\* Another: a service whose repository is closed is taken for nil too.
IsNilServiceOrClosed(service) ==
    service = "none" \/ client[service] = "disconnected"
IsNilService(service) == service = "none"

\* The return of a convenience function that found no default service.
NoServiceConfigured(c, name, a) ==
    /\ StartCall(c, name, a)
    /\ ret' = [ret EXCEPT ![c] = [NoRet EXCEPT !.err = ErrNoServiceConfigured]]
    /\ pc' = [pc EXCEPT ![c] = "done"]
    /\ obs' = [obs EXCEPT ![c] = NoObs]
    /\ UNCHANGED <<config, client, indexes, heap, builtRefs, store, objectIDCounter,
                   defaultService, builder, built, ins, fnd>>

AuditLogAction(c, entry, now) ==
    IF IsNilService(defaultService)
    THEN NoServiceConfigured(c, "audit.LogAction", [NoArg EXCEPT !.entry = entry])
    ELSE LogAction(defaultService, c, entry, now)

AuditGetHistory(c, query) ==
    IF IsNilService(defaultService)
    THEN NoServiceConfigured(c, "audit.GetHistory", [NoArg EXCEPT !.query = query])
    ELSE GetHistory(defaultService, c, query)

AuditGetByID(c, id) ==
    IF IsNilService(defaultService)
    THEN NoServiceConfigured(c, "audit.GetByID", [NoArg EXCEPT !.id = id])
    ELSE GetByID(defaultService, c, id)

AuditGetResourceHistory(c, resourceType, resourceID, limit) ==
    IF IsNilService(defaultService)
    THEN NoServiceConfigured(c, "audit.GetResourceHistory",
             [NoArg EXCEPT !.hist = [NoHist EXCEPT !.resourceType = resourceType,
                                        !.resourceID = resourceID, !.limit = limit]])
    ELSE GetResourceHistory(defaultService, c, resourceType, resourceID, limit)

AuditGetActorHistory(c, actorID, actorType, limit) ==
    IF IsNilService(defaultService)
    THEN NoServiceConfigured(c, "audit.GetActorHistory",
             [NoArg EXCEPT !.hist = [NoHist EXCEPT !.actorID = actorID,
                                        !.actorType = actorType, !.limit = limit]])
    ELSE GetActorHistory(defaultService, c, actorID, actorType, limit)

\* Initialize(config): NewService (a repository constructed from the
\* configuration, and the service over it), then SetDefaultService of the
\* new service; a failed construction leaves the default as it was.
Initialize(c, cfg) ==
    /\ Cardinality(Constructed) < MaxServices
    /\ StartCall(c, "audit.Initialize", [NoArg EXCEPT !.config = cfg])
    /\ pc' = [pc EXCEPT ![c] = "done"]
    /\ \E out \in NewMongoRepositoryOutcomes(cfg, indexes) :
         /\ obs' = [obs EXCEPT ![c] = [NoObs EXCEPT
                      !.connects = out.connects, !.storeOps = out.storeOps]]
         /\ indexes' = out.indexes
         /\ IF out.ok
            THEN /\ config' = [config EXCEPT ![NextService] = cfg]
                 /\ client' = [client EXCEPT ![NextService] = "connected"]
                 /\ defaultService' = NextService
                 /\ ret' = [ret EXCEPT ![c] = NoRet]
            ELSE /\ UNCHANGED <<config, client, defaultService>>
                 /\ ret' = [ret EXCEPT ![c] = [NoRet EXCEPT !.err =
                       Err("failed to initialize audit module", 0,
                           "failed to create repository: " \o out.err.msg)]]
    /\ UNCHANGED <<heap, builtRefs, store, objectIDCounter, builder, built,
                   ins, fnd>>

\* Shutdown(ctx): nil when no default service is set, and the default
\* service's Close otherwise.
Shutdown(c) ==
    IF IsNilService(defaultService)
    THEN /\ StartCall(c, "audit.Shutdown", NoArg)
         /\ ret' = [ret EXCEPT ![c] = NoRet]
         /\ pc' = [pc EXCEPT ![c] = "done"]
         /\ obs' = [obs EXCEPT ![c] = NoObs]
         /\ UNCHANGED <<config, client, indexes, heap, builtRefs, store,
                        objectIDCounter, defaultService, builder, built, ins, fnd>>
    ELSE Close(defaultService, c)

(***************************************************************************)
(* The inputs of the model.                                                *)
(***************************************************************************)
Times == 1..MaxTime

\* Entries for the write path: the base entry, and the base entry with one
\* of the validated fields empty or outside its enum, with an error message,
\* with an identifier or a timestamp of the caller's.
EntryInputs ==
    {BaseEntry}
    \cup {[BaseEntry EXCEPT !.Action = a] : a \in {"", "hack"}}
    \cup {[BaseEntry EXCEPT !.ActorID = ""]}
    \cup {[BaseEntry EXCEPT !.ActorType = a] : a \in {"", "root"}}
    \cup {[BaseEntry EXCEPT !.ResourceType = ""]}
    \cup {[BaseEntry EXCEPT !.ResourceID = ""]}
    \cup {[BaseEntry EXCEPT !.ErrorMsg = "boom"]}
    \cup {[BaseEntry EXCEPT !.ID = OID(171)]}
    \cup {[BaseEntry EXCEPT !.Timestamp = MaxTime]}

(***************************************************************************)
(* The initial state: a repository constructed from a valid Config, an     *)
(* empty collection, no default service, no call in flight.                *)
(***************************************************************************)
InitNoCalls ==
    /\ objectIDCounter = 0
    /\ defaultService = "none"
    /\ heap = EmptyHeap
    /\ builder = NoBuilder
    /\ built = ZeroEntry
    /\ builtRefs = NoRefs
    /\ pc = [c \in Callers |-> "idle"]
    /\ op = [c \in Callers |-> "none"]
    /\ arg = [c \in Callers |-> NoArg]
    /\ cancelled = [c \in Callers |-> FALSE]
    /\ ins = [c \in Callers |-> NoIns]
    /\ fnd = [c \in Callers |-> NoFnd]
    /\ ret = [c \in Callers |-> NoRet]
    /\ obs = [c \in Callers |-> NoObs]

\* No service constructed, and the one service "svc" over a repository
\* constructed from cfg.
NoConfigs == [s \in Services |-> ZeroConfig]
NoClients == [s \in Services |-> "none"]
OneConfig(cfg) == [NoConfigs EXCEPT !["svc"] = cfg]
OneClient == [NoClients EXCEPT !["svc"] = "connected"]

InitIdle ==
    /\ client = OneClient
    /\ indexes = IF config["svc"].EnableIndexes THEN RepositoryIndexes ELSE {}
    /\ InitNoCalls

\* The configurations of a constructed repository that the retry loop can
\* tell apart.
RetryConfigs ==
    {[DefaultConfig EXCEPT !.MaxRetries = n, !.RetryDelay = d] :
        n \in 0..MaxRetriesBound, d \in 0..MaxDelay}
NoRetryConfig == [DefaultConfig EXCEPT !.MaxRetries = 0]

Init ==
    /\ config \in {OneConfig([DefaultConfig EXCEPT !.MaxRetries = n]) :
                      n \in 0..MaxRetriesBound}
    /\ store = {}
    /\ InitIdle

(***************************************************************************)
(* The write path: over a collection that is empty or holds one entry      *)
(* logged earlier, a caller logs one entry; the repository retries; the    *)
(* caller may cancel its call.                                             *)
(***************************************************************************)
Writers == {"c2"}

EarlierEntry == [BaseEntry EXCEPT !.ID = OID(171), !.Timestamp = 1]

InitWrite ==
    /\ config \in {OneConfig(cfg) : cfg \in RetryConfigs}
    /\ store \in {{}, {EarlierEntry}}
    /\ InitIdle

NextWrite ==
    \E c \in Writers :
        \/ \E entry \in EntryInputs, now \in Times :
              pc[c] = "idle" /\ LogAction("svc", c, entry, now)
        \/ InsertAttempt(c)
        \/ InsertSleep(c)
        \/ Cancel(c)

SpecWrite == InitWrite /\ [][NextWrite]_vars

(***************************************************************************)
(* Claims about the write path (checked under SpecWrite).                  *)
(***************************************************************************)
\* What the specification requires of an entry, stated on its fields.
EntryIsValid(e) ==
    /\ e.Action # "" /\ e.ActorID # "" /\ e.ActorType # ""
    /\ e.ResourceType # "" /\ e.ResourceID # ""
    /\ e.ActorType \in ActorTypes
    /\ e.Action \in AuditActions

\* C1: LogAction hands the entry, unchanged and exactly once, to
\* Repository.Insert if and only if action, actor id, actor type, resource
\* type and resource id are non-empty and actor type and action are enum
\* members; otherwise it returns a validation error and the call issues no
\* store operation.
C1_LogActionValidates ==
    \A c \in Callers :
        op[c] = "LogAction" =>
            IF EntryIsValid(arg[c].entry)
            THEN /\ obs[c].delegated = 1
                 /\ obs[c].passed = arg[c].entry
                 /\ ret[c].err.msg # "invalid audit entry"
            ELSE /\ pc[c] = "done"
                 /\ ret[c].err.msg = "invalid audit entry"
                 /\ obs[c].delegated = 0
                 /\ obs[c].storeOps = 0

\* An entry whose only defect is an empty resource id was rejected, and
\* (by another caller or earlier) a valid one reached the store.
C1_Witness ==
    \E c \in Callers :
        /\ op[c] = "LogAction" /\ pc[c] = "done"
        /\ arg[c].entry = [BaseEntry EXCEPT !.ResourceID = ""]
        /\ ret[c].err.msg = "invalid audit entry"
        /\ store # {}

\* C2: Insert makes at most MaxRetries+1 write attempts; it returns success
\* exactly when an attempt succeeded and makes no attempt after that one; it
\* fails only after MaxRetries+1 failed attempts, with an error that names
\* MaxRetries+1 and wraps the last store error.
C2_InsertRetries ==
    \A c \in Callers :
        (op[c] = "LogAction" /\ obs[c].delegated = 1) =>
            /\ obs[c].inserts <= config["svc"].MaxRetries + 1
            /\ (obs[c].inserts > 0 /\ obs[c].lastErr = "")
                  => (pc[c] = "done" /\ ret[c].err = NoErr)
            /\ pc[c] = "done" =>
                  /\ obs[c].inserts >= 1
                  /\ ret[c].err = NoErr <=> obs[c].lastErr = ""
                  /\ ret[c].err # NoErr =>
                        /\ obs[c].inserts = config["svc"].MaxRetries + 1
                        /\ ret[c].err.attempts = config["svc"].MaxRetries + 1
                        /\ ret[c].err.cause = obs[c].lastErr
            /\ pc[c] # "done" => obs[c].inserts <= config["svc"].MaxRetries

\* Insert failed MaxRetries times (MaxRetries > 0) and then succeeded, on
\* attempt MaxRetries+1.
C2_Witness ==
    \E c \in Callers :
        /\ op[c] = "LogAction" /\ pc[c] = "done"
        /\ config["svc"].MaxRetries = MaxRetriesBound
        /\ obs[c].inserts = config["svc"].MaxRetries + 1
        /\ obs[c].sleeps = config["svc"].MaxRetries
        /\ ret[c].err = NoErr

\* C3: once the context of an Insert call is cancelled, the call makes no
\* further write attempt (at most the one the cancellation failed) and
\* waits out no further retry delay.
C3_CancelStopsRetries ==
    \A c \in Callers :
        /\ obs[c].insertsCancelled <= 1
        /\ obs[c].sleepsCancelled = 0

(***************************************************************************)
(* The builder path: a builder is created and set up call by call, built   *)
(* and logged once through its bound service.                              *)
(***************************************************************************)
NextBuilder ==
    \/ \E service \in {"none", "svc"} : SetDefaultService(service)
    \/ \E now \in Times : NewAuditBuilder(now)
    \/ Action("create")
    \/ Actor("u1", "user")
    \/ Resource("doc", "r1")
    \/ \E success \in BOOLEAN : Success(success)
    \/ \E err \in {"", "boom"} : Error(err)
    \/ Build
    \/ \E c \in Writers, now \in Times : pc[c] = "idle" /\ Log(c, now)
    \/ \E c \in Writers : InsertAttempt(c)
    \/ \E c \in Writers : InsertSleep(c)

SpecBuilder == Init /\ [][NextBuilder]_vars

\* C4: once Error was called with a non-nil error, the builder's entry (and
\* so the entry Build returns) has Success = FALSE, whatever Success calls
\* came before or after.
C4_ErrorOverridesSuccess ==
    /\ builder.errorCalled => ~builder.entry.Success
    /\ (builder.errorCalled /\ built.ErrorMsg # "") => ~built.Success

\* C5: in the builder's entry, in every built entry and in every persisted
\* entry, a non-empty error message implies Success = FALSE.
C5_ErrorMsgOnlyOnFailure ==
    /\ builder.entry.ErrorMsg # "" => ~builder.entry.Success
    /\ built.ErrorMsg # "" => ~built.Success
    /\ \A d \in store : d.ErrorMsg # "" => ~d.Success

(***************************************************************************)
(* The read path: the repository is constructed over a collection that     *)
(* holds entries logged earlier, which differ in every field a query can   *)
(* filter on; a reader issues one query while a writer logs one more       *)
(* entry.                                                                  *)
(***************************************************************************)
Readers == {"c1"}

SeedEntries ==
    {[BaseEntry EXCEPT !.ID = OID(1), !.Timestamp = 1],
     [BaseEntry EXCEPT !.ID = OID(2), !.Timestamp = MaxTime,
                       !.Action = "login", !.ActorID = "u2"],
     [BaseEntry EXCEPT !.ID = OID(3), !.Timestamp = MaxTime,
                       !.ActorType = "admin", !.SessionID = "s1"],
     [BaseEntry EXCEPT !.ID = OID(4), !.Timestamp = 1,
                       !.ResourceType = "user", !.ResourceID = "r2",
                       !.Success = FALSE]}

\* Filters: no field set, each field set alone (to values that occur, that
\* do not occur, and that are outside the enums), and every time range.
FilterInputs ==
    {ZeroQuery}
    \cup {[ZeroQuery EXCEPT !.ActorID = a] : a \in {"u1", "u2"}}
    \cup {[ZeroQuery EXCEPT !.ActorType = a] : a \in {"user", "admin", "root"}}
    \cup {[ZeroQuery EXCEPT !.SessionID = "s1"]}
    \cup {[ZeroQuery EXCEPT !.Actions = a] :
             a \in {<<"create">>, <<"login", "view">>, <<"hack">>,
                    <<"create", "hack">>}}
    \cup {[ZeroQuery EXCEPT !.ResourceType = "user"]}
    \cup {[ZeroQuery EXCEPT !.ResourceID = "r1"]}
    \cup {[ZeroQuery EXCEPT !.Success = <<b>>] : b \in BOOLEAN}
    \cup {[ZeroQuery EXCEPT !.StartTime = <<t>>] : t \in Times}
    \cup {[ZeroQuery EXCEPT !.EndTime = <<t>>] : t \in Times}
    \cup {[ZeroQuery EXCEPT !.StartTime = <<t>>, !.EndTime = <<u>>] :
             t \in Times, u \in Times}
    \cup {[ZeroQuery EXCEPT !.ActorID = "u1", !.Success = <<TRUE>>]}

\* Queries: every filter without pagination and with a page of one entry at
\* Offset 0 and 1, and three of the filters with every Limit and Offset of
\* -1..MaxPage.
PagedFilters ==
    {ZeroQuery, [ZeroQuery EXCEPT !.ActorID = "u1"],
     [ZeroQuery EXCEPT !.StartTime = <<MaxTime>>]}
QueryInputs ==
    FilterInputs
    \cup {[q EXCEPT !.Limit = 1, !.Offset = o] : q \in FilterInputs, o \in {0, 1}}
    \cup {[q EXCEPT !.Limit = l, !.Offset = o] :
             q \in PagedFilters, l \in -1..MaxPage, o \in -1..MaxPage}

\* The entry the writer logs meanwhile: the newest, by the actor of the base.
LateEntry == [BaseEntry EXCEPT !.ID = OID(5), !.Timestamp = MaxTime]

\* The collection holds up to MaxStore of the seed entries; the writes of
\* this repository are not retried (MaxRetries = 0).
InitRead ==
    /\ config = OneConfig(NoRetryConfig)
    /\ store \in {S \in SUBSET SeedEntries : Cardinality(S) <= MaxStore}
    /\ InitIdle

NextRead ==
    \/ \E c \in Readers :
          \/ \E query \in QueryInputs : pc[c] = "idle" /\ GetHistory("svc", c, query)
          \/ FindByQueryCount(c)
          \/ FindByQueryFind(c)
          \/ Cancel(c)
    \/ \E c \in Writers :
          \/ LogAction("svc", c, LateEntry, MaxTime)
          \/ InsertAttempt(c)

SpecRead == InitRead /\ [][NextRead]_vars

(***************************************************************************)
(* Claims about the read path (checked under SpecRead).                    *)
(***************************************************************************)
\* What the specification requires of a query, stated on its fields.
QueryIsValid(q) ==
    /\ q.Limit >= 0
    /\ q.Offset >= 0
    /\ (q.StartTime # <<>> /\ q.EndTime # <<>>) => q.StartTime[1] <= q.EndTime[1]
    /\ q.ActorType = "" \/ q.ActorType \in ActorTypes
    /\ Range(q.Actions) \subseteq AuditActions

\* Whether a persisted entry matches a query, stated on the query's fields.
QueryMatches(d, q) ==
    /\ q.ActorID = "" \/ d.ActorID = q.ActorID
    /\ q.ActorType = "" \/ d.ActorType = q.ActorType
    /\ q.SessionID = "" \/ d.SessionID = q.SessionID
    /\ q.ResourceType = "" \/ d.ResourceType = q.ResourceType
    /\ q.ResourceID = "" \/ d.ResourceID = q.ResourceID
    /\ q.Success = <<>> \/ d.Success = q.Success[1]
    /\ q.Actions = <<>> \/ \E i \in 1..Len(q.Actions) : d.Action = q.Actions[i]
    /\ q.StartTime = <<>> \/ q.StartTime[1] <= d.Timestamp
    /\ q.EndTime = <<>> \/ d.Timestamp <= q.EndTime[1]

Matching(st, q) == {d \in st : QueryMatches(d, q)}

\* Whether seq holds positions from+1 .. to (cut to the length) of an
\* enumeration of the set S newest first.
IsSliceOfNewestFirst(seq, S, from, to) ==
    \E s \in SortedDesc(S) :
        seq = SubSeq(s, from + 1, IF to < Len(s) THEN to ELSE Len(s))

\* A GetHistory call that returned a result.
Answered(c) ==
    /\ op[c] = "GetHistory" /\ pc[c] = "done"
    /\ ret[c].err = NoErr /\ ~ret[c].isNil

\* C6: GetHistory returns a validation error and issues no store operation
\* for a query with a negative limit or offset, a start time after its end
\* time, an actor type or a listed action outside the enums; every other
\* query is handed, unchanged, to FindByQuery.
C6_GetHistoryValidates ==
    \A c \in Callers :
        op[c] = "GetHistory" =>
            IF QueryIsValid(arg[c].query)
            THEN /\ obs[c].delegated = 1
                 /\ obs[c].passedQuery = arg[c].query
                 /\ ret[c].err.msg # "invalid query"
            ELSE /\ pc[c] = "done"
                 /\ ret[c].err.msg = "invalid query"
                 /\ obs[c].delegated = 0
                 /\ obs[c].storeOps = 0

\* A query whose second listed action is outside the enum was rejected
\* while the collection held entries.
C6_Witness ==
    \E c \in Callers :
        /\ op[c] = "GetHistory" /\ pc[c] = "done"
        /\ arg[c].query.Actions = <<"create", "hack">>
        /\ ret[c].err.msg = "invalid query"
        /\ obs[c].storeOps = 0
        /\ store # {}

\* C7: with Limit = L > 0 and Offset = O >= 0, FindByQuery returns the
\* entries at positions [O, O+L) of a newest-first enumeration of the
\* persisted entries matching the query (as the find saw the collection),
\* and Total is the number of matching entries (as the count saw it).
C7_PageOfNewestFirst ==
    \A c \in Callers :
        (Answered(c) /\ arg[c].query.Limit > 0) =>
            LET q == arg[c].query
            IN  /\ IsSliceOfNewestFirst(ret[c].Entries, Matching(obs[c].found, q),
                                        q.Offset, q.Offset + q.Limit)
                /\ ret[c].Total = Cardinality(Matching(obs[c].counted, q))

\* A query by actor id with Limit 1 and Offset 1 returned the second of
\* several matching entries, out of a collection that also held entries
\* that do not match.
C7_Witness ==
    \E c \in Callers :
        /\ Answered(c)
        /\ arg[c].query.ActorID = "u1"
        /\ arg[c].query.Limit = 1 /\ arg[c].query.Offset = 1
        /\ Len(ret[c].Entries) = 1
        /\ ret[c].Total >= 2
        /\ Cardinality(obs[c].found) > ret[c].Total

\* C8: HasMore is true exactly when the limit is positive and
\* offset + number of returned entries < Total.
C8_HasMore ==
    \A c \in Callers :
        Answered(c) =>
            /\ ret[c].HasMore <=>
                  (/\ arg[c].query.Limit > 0
                   /\ arg[c].query.Offset + Len(ret[c].Entries) < ret[c].Total)
            /\ arg[c].query.Limit = 0 => ~ret[c].HasMore

\* A page of one entry at Offset 1 that is the last of two matching
\* entries: fewer entries returned than Total, and yet no more to come.
C8_Witness ==
    \E c \in Callers :
        /\ Answered(c)
        /\ arg[c].query.Limit = 1 /\ arg[c].query.Offset = 1
        /\ Len(ret[c].Entries) = 1
        /\ ret[c].Total = 2
        /\ ~ret[c].HasMore

\* C9 as claimed: with Limit = 0, FindByQuery returns all matching entries
\* from position 0, whatever the Offset.
C9_ZeroLimitReturnsAll ==
    \A c \in Callers :
        (Answered(c) /\ arg[c].query.Limit = 0) =>
            LET M == Matching(obs[c].found, arg[c].query)
            IN  IsSliceOfNewestFirst(ret[c].Entries, M, 0, Cardinality(M))

\* C9 as amended: with Limit = 0, FindByQuery returns all matching entries
\* from position Offset on, newest first (all of them when Offset = 0).
C9_ZeroLimitReturnsRest ==
    \A c \in Callers :
        (Answered(c) /\ arg[c].query.Limit = 0) =>
            LET M == Matching(obs[c].found, arg[c].query)
            IN  IsSliceOfNewestFirst(ret[c].Entries, M,
                                     arg[c].query.Offset, Cardinality(M))

\* A query with Limit 0 and Offset 1 returned all but one of the matching
\* entries.
C9_Witness ==
    \E c \in Callers :
        /\ Answered(c)
        /\ arg[c].query.Limit = 0 /\ arg[c].query.Offset = 1
        /\ Cardinality(Matching(obs[c].found, arg[c].query)) >= 2
        /\ Len(ret[c].Entries) + 1 =
              Cardinality(Matching(obs[c].found, arg[c].query))

(***************************************************************************)
(* The lookup path: over a collection that holds up to two entries logged  *)
(* earlier, a reader looks one identifier up while a writer logs one more  *)
(* entry.                                                                  *)
(***************************************************************************)
\* Identifier strings: empty; of entries that may be persisted (lower and
\* upper case); well-formed but of no entry; too short; not hexadecimal.
IdInputs ==
    {<<>>,
     Hex(OID(1)), Hex(EarlierEntry.ID), HexUp(EarlierEntry.ID), Hex(LateEntry.ID),
     Hex(OID(34)),
     SubSeq(Hex(OID(1)), 1, 2 * ObjectIDLen - 1),
     [i \in 1..(2 * ObjectIDLen) |-> "z"],
     <<"u", "1">>}

InitLookup ==
    /\ config = OneConfig(NoRetryConfig)
    /\ store \in SUBSET {EarlierEntry, [BaseEntry EXCEPT !.ID = OID(1), !.Timestamp = 1]}
    /\ InitIdle

NextLookup ==
    \/ \E c \in Readers :
          \/ \E id \in IdInputs : pc[c] = "idle" /\ GetByID("svc", c, id)
          \/ FindByIDFindOne(c)
          \/ Cancel(c)
    \/ \E c \in Writers :
          \/ LogAction("svc", c, LateEntry, MaxTime)
          \/ InsertAttempt(c)

SpecLookup == InitLookup /\ [][NextLookup]_vars

\* An identifier string is well formed when it holds exactly 24 hexadecimal
\* digits; it names the entry whose identifier, written in hexadecimal,
\* equals it up to the case of the digits.
HexDigits == Range(HexLower) \cup Range(HexUpper)
WellFormedID(s) == Len(s) = 24 /\ \A i \in 1..Len(s) : s[i] \in HexDigits
Names(s, d) ==
    /\ Len(s) = Len(Hex(d.ID))
    /\ \A i \in 1..Len(s) :
          \E k \in 1..16 : s[i] \in {HexLower[k], HexUpper[k]}
                           /\ Hex(d.ID)[i] = HexLower[k]

LookedUp(c) == op[c] = "GetByID" /\ pc[c] = "done"

\* C10 as claimed: for every non-empty identifier string of no persisted
\* entry GetByID returns (nil, nil); it returns an error only when the
\* lookup failed in the store; a persisted entry's identifier returns it.
C10_UnknownIDIsNotFound ==
    \A c \in Callers :
        (LookedUp(c) /\ arg[c].id # <<>>) =>
            /\ ret[c].err # NoErr =>
                  (obs[c].storeOps = 1 /\ ret[c].err.msg = "failed to find audit entry")
            /\ (ret[c].err = NoErr /\ ~\E d \in obs[c].found : Names(arg[c].id, d))
                  => ret[c].isNil
            /\ (ret[c].err = NoErr /\ \E d \in obs[c].found : Names(arg[c].id, d))
                  => (~ret[c].isNil /\ Names(arg[c].id, ret[c].entry))

\* C10 as amended: a non-empty identifier string that is not well formed
\* (not 24 hexadecimal digits) returns an "invalid ID format" error with no
\* store operation; a well-formed one is looked up once and returns
\* (nil, nil) when it names no persisted entry, the entry when it names one,
\* and an error only when the lookup failed in the store.
C10_WellFormedUnknownIDIsNotFound ==
    \A c \in Callers :
        (LookedUp(c) /\ arg[c].id # <<>>) =>
            IF ~WellFormedID(arg[c].id)
            THEN /\ ret[c].err.msg = "invalid ID format"
                 /\ ret[c].isNil
                 /\ obs[c].storeOps = 0
            ELSE /\ obs[c].storeOps = 1
                 /\ ret[c].err # NoErr =>
                       (ret[c].isNil /\ ret[c].err.msg = "failed to find audit entry")
                 /\ (ret[c].err = NoErr /\ ~\E d \in obs[c].found : Names(arg[c].id, d))
                       => ret[c].isNil
                 /\ (ret[c].err = NoErr /\ \E d \in obs[c].found : Names(arg[c].id, d))
                       => /\ ~ret[c].isNil
                          /\ ret[c].entry \in obs[c].found
                          /\ Names(arg[c].id, ret[c].entry)

\* A well-formed identifier of no persisted entry was looked up in a
\* collection that holds entries, and the result was (nil, nil).
C10_Witness ==
    \E c \in Callers :
        /\ LookedUp(c)
        /\ arg[c].id = Hex(OID(34))
        /\ obs[c].found # {}
        /\ obs[c].storeOps = 1
        /\ ret[c].err = NoErr /\ ret[c].isNil

(***************************************************************************)
(* Every operation of the service and the repository: over a collection    *)
(* that holds up to two entries, one caller calls the operations in any    *)
(* order, again and again (logging an entry under an identifier of its     *)
(* own, and an invalid one), while another logs one entry.                 *)
(***************************************************************************)
AllEntryInputs ==
    {[BaseEntry EXCEPT !.ID = OID(171)], [BaseEntry EXCEPT !.ResourceID = ""]}
AllQueryInputs ==
    {ZeroQuery, [ZeroQuery EXCEPT !.Limit = 1, !.Offset = 1],
     [ZeroQuery EXCEPT !.Limit = -1]}
AllIdInputs == {Hex(EarlierEntry.ID), <<"u", "1">>}

InitAll ==
    /\ config = OneConfig([DefaultConfig EXCEPT !.MaxRetries = 1,
                                                !.EnableIndexes = FALSE])
    /\ store \in {{}, {EarlierEntry}, {EarlierEntry, LateEntry}}
    /\ InitIdle

NextAll ==
    \/ \E c \in Readers :
          \/ \E entry \in AllEntryInputs : LogAction("svc", c, entry, MaxTime)
          \/ \E query \in AllQueryInputs : GetHistory("svc", c, query)
          \/ FindByQueryCount(c)
          \/ FindByQueryFind(c)
          \/ \E id \in AllIdInputs : GetByID("svc", c, id)
          \/ FindByIDFindOne(c)
          \/ \E resourceID \in {"", "r1"} : GetResourceHistory("svc", c, "doc", resourceID, 0)
          \/ FindByResourceFind(c)
          \/ \E actorID \in {"", "u1"} : GetActorHistory("svc", c, actorID, "", 1)
          \/ FindByActorFind(c)
          \/ EnsureIndexes("svc", c)
          \/ Close("svc", c)
    \/ \E c \in Callers :
          \/ InsertAttempt(c)
          \/ InsertSleep(c)
    \/ \E c \in Writers : pc[c] = "idle" /\ LogAction("svc", c, BaseEntry, MaxTime)

SpecAll == InitAll /\ [][NextAll]_vars

\* A step applied a write of the caller's Insert call: the collection gained
\* the call's entry, under an identifier that was not in it.
InsertApplied(c) ==
    /\ pc[c] = "insert"
    /\ obs'[c].inserts = obs[c].inserts + 1
    /\ ins[c].entry \notin store
    /\ \A d \in store : d.ID # ins[c].entry.ID
    /\ store' = store \cup {ins[c].entry}

\* C11 as claimed: no step removes or changes a persisted entry, and the
\* collection changes only in a step in which an Insert call returns
\* success, which adds exactly that call's entry.
C11_OnlySuccessfulInsertAdds ==
    [][/\ store \subseteq store'
       /\ store' # store =>
             \E c \in Callers :
                /\ InsertApplied(c)
                /\ pc'[c] = "done" /\ ret'[c].err = NoErr]_vars

\* C11 as amended: no step removes or changes a persisted entry, and the
\* collection changes only in a write attempt of an Insert call, which adds
\* exactly that call's entry under an identifier that was not present,
\* whatever the attempt (and in the end the call) reports.
C11_AppendOnly ==
    [][/\ store \subseteq store'
       /\ store' # store => \E c \in Callers : InsertApplied(c)]_vars

\* After a Close, with operations of every kind behind it, the collection
\* holds the entry it started with and two more.
C11_Witness ==
    /\ client["svc"] = "disconnected"
    /\ EarlierEntry \in store
    /\ Cardinality(store) = 3
    /\ \E c \in Readers : op[c] = "EnsureIndexes" /\ ret[c].err # NoErr

(***************************************************************************)
(* The default service: the default is set and cleared at any time, a      *)
(* builder is created with the default or with a service of its own and    *)
(* logged by one caller, and another caller calls one of the convenience   *)
(* functions.                                                              *)
(***************************************************************************)
InitDefault ==
    /\ config = OneConfig(NoRetryConfig)
    /\ store \in {{}, {EarlierEntry}}
    /\ InitIdle

NextDefault ==
    \/ \E service \in {"none", "svc"} : SetDefaultService(service)
    \/ NewAuditBuilder(MaxTime)
    \/ \E service \in {"none", "svc"} : NewAuditBuilderWithService(service, MaxTime)
    \/ Action("create")
    \/ Actor("u1", "user")
    \/ Resource("doc", "r1")
    \/ \E c \in Writers : pc[c] = "idle" /\ Log(c, MaxTime)
    \/ \E c \in Readers :
          \/ pc[c] = "idle" /\ AuditLogAction(c, [BaseEntry EXCEPT !.ID = OID(171)], MaxTime)
          \/ pc[c] = "idle" /\ AuditGetHistory(c, ZeroQuery)
          \/ pc[c] = "idle" /\ AuditGetByID(c, Hex(EarlierEntry.ID))
          \/ pc[c] = "idle" /\ AuditGetResourceHistory(c, "doc", "r1", 0)
          \/ pc[c] = "idle" /\ AuditGetActorHistory(c, "u1", "", 0)
          \/ FindByQueryCount(c)
          \/ FindByQueryFind(c)
          \/ FindByIDFindOne(c)
          \/ FindByResourceFind(c)
          \/ FindByActorFind(c)
    \/ \E c \in Callers : InsertAttempt(c)

SpecDefault == InitDefault /\ [][NextDefault]_vars

\* The names a call is recorded under when no persistence target is bound.
UnboundOps ==
    {"audit.LogAction", "audit.GetHistory", "audit.GetByID",
     "audit.GetResourceHistory", "audit.GetActorHistory"}

\* A step in which the caller makes a call.
CallStarts(c) ==
    /\ Idle(c)
    /\ <<pc[c], op[c], arg[c], ret[c], obs[c]>>' # <<pc[c], op[c], arg[c], ret[c], obs[c]>>

\* The call made in this step returned ErrNoServiceConfigured at once, and
\* the step left the store and the repository alone.
ReturnedNoService(c) ==
    /\ pc'[c] = "done"
    /\ ret'[c] = [NoRet EXCEPT !.err = ErrNoServiceConfigured]
    /\ obs'[c].storeOps = 0 /\ obs'[c].delegated = 0
    /\ UNCHANGED <<store, client, indexes, objectIDCounter>>

\* C12: a call of Builder.Log with no service bound to the builder, and a
\* call of a package-level convenience operation with no default service
\* set, returns ErrNoServiceConfigured and issues no store operation; these
\* are the only calls that return it; an operation of the service starts
\* only when a target is bound, and when the only bound target is the
\* builder's, it is LogAction with exactly the builder's entry.
C12_NoServiceConfigured ==
    [][\A c \in Callers :
          CallStarts(c) =>
             IF op'[c] = "Log"
             THEN builder.service = "none" /\ ReturnedNoService(c)
                  /\ arg'[c].entry = builder.entry
             ELSE IF op'[c] \in UnboundOps
             THEN defaultService = "none" /\ ReturnedNoService(c)
             ELSE /\ ret'[c].err # ErrNoServiceConfigured
                  /\ \/ defaultService # "none"
                     \/ /\ builder.alive /\ builder.service # "none"
                        /\ op'[c] = "LogAction"
                        /\ arg'[c].entry = builder.entry
                        /\ obs'[c].delegated = 1 =>
                              obs'[c].passed = builder.entry]_vars

\* With no default service set, a convenience operation returned
\* ErrNoServiceConfigured over a collection that holds an entry, while a
\* builder bound to a service of its own logged its entry.
C12_Witness ==
    /\ defaultService = "none"
    /\ \E c \in Readers :
          /\ op[c] = "audit.GetHistory" /\ pc[c] = "done"
          /\ ret[c].err = ErrNoServiceConfigured
          /\ obs[c].storeOps = 0
    /\ \E c \in Writers :
          /\ op[c] = "LogAction" /\ pc[c] = "done"
          /\ arg[c].entry = builder.entry
          /\ ret[c].err = NoErr
          /\ builder.entry \in store
    /\ EarlierEntry \in store

(***************************************************************************)
(* Identifiers and timestamps: over a collection that is empty or holds    *)
(* one entry, one caller logs an entry with or without an identifier and   *)
(* a timestamp of its own, and another logs the entry of a builder, whose  *)
(* timestamp it may have set.                                              *)
(***************************************************************************)
IdentityEntryInputs ==
    {BaseEntry,
     [BaseEntry EXCEPT !.ID = OID(171)],
     [BaseEntry EXCEPT !.Timestamp = 1],
     [BaseEntry EXCEPT !.ID = OID(172), !.Timestamp = 1]}

InitIdentity ==
    /\ config \in {OneConfig([DefaultConfig EXCEPT !.MaxRetries = n]) : n \in {0, 1}}
    /\ store \in {{}, {EarlierEntry}}
    /\ InitIdle

NextIdentity ==
    \/ NewAuditBuilderWithService("svc", MaxTime)
    \/ Action("create")
    \/ Actor("u1", "user")
    \/ Resource("doc", "r1")
    \/ Timestamp(1)
    \/ \E c \in Writers : pc[c] = "idle" /\ Log(c, MaxTime)
    \/ \E c \in Readers, entry \in IdentityEntryInputs :
          pc[c] = "idle" /\ LogAction("svc", c, entry, MaxTime)
    \/ \E c \in Callers : InsertAttempt(c) \/ InsertSleep(c)

SpecIdentity == InitIdentity /\ [][NextIdentity]_vars

\* An Insert call is under way or over.
InsertCalled(c) == op[c] = "LogAction" /\ obs[c].delegated = 1

\* C13: every persisted entry has a non-zero identifier and a non-zero
\* timestamp, and no two persisted entries share an identifier; a builder's
\* entry has both from its construction on, under an identifier of no
\* entry persisted by another call; the entry Insert writes is the entry it
\* was handed, with the identifier and the timestamp filled when (and only
\* when) they were zero; and a successful call has persisted that entry.
C13_IdentifiedAndStamped ==
    /\ \A d \in store : ~IsZeroID(d.ID) /\ d.Timestamp # 0
    /\ \A d, e \in store : d.ID = e.ID => d = e
    /\ builder.alive =>
          /\ ~IsZeroID(builder.entry.ID) /\ builder.entry.Timestamp # 0
          /\ \A d \in store : d.ID = builder.entry.ID =>
                \E c \in Callers : InsertCalled(c) /\ arg[c].entry.ID = d.ID
    /\ \A c \in Callers : InsertCalled(c) =>
          LET given == arg[c].entry
              w == ins[c].entry
          IN  /\ ~IsZeroID(w.ID) /\ w.Timestamp # 0
              /\ ~IsZeroID(given.ID) => w.ID = given.ID
              /\ given.Timestamp # 0 => w.Timestamp = given.Timestamp
              /\ w = [given EXCEPT !.ID = w.ID, !.Timestamp = w.Timestamp]
              /\ \A i \in 1..Len(obs[c].written) : obs[c].written[i] = w
              /\ (pc[c] = "done" /\ ret[c].err = NoErr) => w \in store

\* Beside an entry logged earlier, the collection holds an entry that was
\* logged with no identifier and no timestamp and the entry of a builder
\* whose timestamp was set by its caller to a time before its creation.
C13_Witness ==
    /\ Cardinality(store) = 3
    /\ \E c \in Readers :
          /\ InsertCalled(c) /\ pc[c] = "done" /\ ret[c].err = NoErr
          /\ arg[c].entry = BaseEntry
    /\ \E c \in Writers :
          /\ InsertCalled(c) /\ pc[c] = "done" /\ ret[c].err = NoErr
          /\ arg[c].entry = builder.entry
          /\ builder.entry.Timestamp = 1
          /\ builder.entry.ID[1] = MaxTime

(***************************************************************************)
(* The histories: over a collection that holds entries logged earlier, a   *)
(* reader asks once for the history of a resource or of an actor, through  *)
(* the service or on the repository itself, while a writer logs one more   *)
(* entry.                                                                  *)
(***************************************************************************)
ResourceTypeInputs == {"", "doc", "user"}
ResourceIDInputs == {"", "r1", "r2"}
ActorIDInputs == {"", "u1", "u2"}
ActorTypeInputs == {"", "user", "admin", "root"}
LimitInputs == -1..MaxPage

InitHistory ==
    /\ config = OneConfig(NoRetryConfig)
    /\ store \in {S \in SUBSET SeedEntries : Cardinality(S) <= MaxStore}
    /\ InitIdle

NextHistory ==
    \/ \E c \in Readers :
          \/ \E t \in ResourceTypeInputs, id \in ResourceIDInputs, limit \in LimitInputs :
                pc[c] = "idle" /\ GetResourceHistory("svc", c, t, id, limit)
          \/ \E id \in ActorIDInputs, t \in ActorTypeInputs, limit \in LimitInputs :
                pc[c] = "idle" /\ GetActorHistory("svc", c, id, t, limit)
          \/ \E t \in ResourceTypeInputs, id \in ResourceIDInputs, limit \in LimitInputs :
                pc[c] = "idle" /\ FindByResource("svc", c, t, id, limit)
          \/ \E id \in ActorIDInputs, t \in ActorTypeInputs, limit \in LimitInputs :
                pc[c] = "idle" /\ FindByActor("svc", c, id, t, limit)
          \/ FindByResourceFind(c)
          \/ FindByActorFind(c)
          \/ Cancel(c)
    \/ \E c \in Writers :
          \/ LogAction("svc", c, LateEntry, MaxTime)
          \/ InsertAttempt(c)

SpecHistory == InitHistory /\ [][NextHistory]_vars

\* C14: GetResourceHistory returns an error and issues no store operation
\* when the resource type or the resource id is empty or the limit is
\* negative, and GetActorHistory when the actor id is empty or the limit is
\* negative; otherwise each calls FindByResource / FindByActor once, with
\* its arguments as given.
C14_HistoryValidates ==
    \A c \in Callers :
        LET h == arg[c].hist
            rejected == /\ pc[c] = "done"
                        /\ ret[c].err # NoErr /\ ret[c].isNil
                        /\ obs[c].delegated = 0
                        /\ obs[c].storeOps = 0
            delegated == /\ obs[c].delegated = 1
                         /\ obs[c].passedHist = h
                         /\ obs[c].storeOps <= 1
                         /\ pc[c] = "done" => obs[c].storeOps = 1
        IN  /\ op[c] = "GetResourceHistory" =>
                  IF h.resourceType = "" \/ h.resourceID = "" \/ h.limit < 0
                  THEN rejected ELSE delegated
            /\ op[c] = "GetActorHistory" =>
                  IF h.actorID = "" \/ h.limit < 0
                  THEN rejected ELSE delegated

\* GetResourceHistory with an empty resource id was rejected over a
\* collection that holds entries of that resource type.
C14_Witness ==
    \E c \in Callers :
        /\ op[c] = "GetResourceHistory" /\ pc[c] = "done"
        /\ arg[c].hist.resourceType = "doc" /\ arg[c].hist.resourceID = ""
        /\ arg[c].hist.limit = 1
        /\ ret[c].err.msg = "resource ID cannot be empty"
        /\ obs[c].storeOps = 0
        /\ \E d \in store : d.ResourceType = "doc"

\* A history call that returned entries.
HistoryAnswered(c, ops) ==
    /\ op[c] \in ops /\ pc[c] = "done"
    /\ ret[c].err = NoErr /\ ~ret[c].isNil

\* The first limit entries when limit > 0, and all of them otherwise, of an
\* enumeration of S newest first.
IsNewestFirstUpTo(seq, S, limit) ==
    IsSliceOfNewestFirst(seq, S, 0, IF limit > 0 THEN limit ELSE Cardinality(S))

\* C15: FindByResource returns, newest first, the persisted entries whose
\* resource type and resource id both equal the arguments, and FindByActor
\* those whose actor id equals the argument (and whose actor type equals
\* the argument when that is non-empty); the first limit of them when
\* limit > 0, all of them when limit <= 0.
C15_HistoryIsExact ==
    \A c \in Callers :
        LET h == arg[c].hist
        IN  /\ HistoryAnswered(c, {"GetResourceHistory", "FindByResource"}) =>
                  IsNewestFirstUpTo(ret[c].Entries,
                      {d \in obs[c].found : /\ d.ResourceType = h.resourceType
                                            /\ d.ResourceID = h.resourceID},
                      h.limit)
            /\ HistoryAnswered(c, {"GetActorHistory", "FindByActor"}) =>
                  IsNewestFirstUpTo(ret[c].Entries,
                      {d \in obs[c].found : /\ d.ActorID = h.actorID
                                            /\ h.actorType # "" =>
                                                  d.ActorType = h.actorType},
                      h.limit)

\* The history of actor u1 as a user, cut to one entry, out of a collection
\* that holds two such entries and an entry of u1 as an admin.
C15_Witness ==
    \E c \in Callers :
        /\ HistoryAnswered(c, {"GetActorHistory"})
        /\ arg[c].hist.actorID = "u1" /\ arg[c].hist.actorType = "user"
        /\ arg[c].hist.limit = 1
        /\ Len(ret[c].Entries) = 1
        /\ Cardinality({d \in obs[c].found :
                           d.ActorID = "u1" /\ d.ActorType = "user"}) >= 2
        /\ \E d \in obs[c].found : d.ActorID = "u1" /\ d.ActorType = "admin"

(***************************************************************************)
(* Build: a builder is created and set up call by call, and built at any   *)
(* point, any number of times.                                             *)
(***************************************************************************)
NextSnapshot ==
    \/ NewAuditBuilder(MaxTime)
    \/ \E action \in {"create", "update"} : Action(action)
    \/ \E value \in {"v1", "v2"} : Metadata("k1", value)
    \/ \E field \in {"f1", "f2"} : AddChange(field, "old", "new")
    \/ Build

SpecSnapshot == Init /\ [][NextSnapshot]_vars

\* An entry as its holder reads it: its fields, the pairs of its map and
\* the elements of its slice.
EntryView(h, entry, refs) ==
    [entry |-> entry,
     Metadata |-> IF refs.Metadata = 0 THEN {} ELSE h.maps[refs.Metadata],
     Changes |-> SliceElems(h, refs.Changes)]

\* A step that is a call of Build.
BuildStep == <<built, builtRefs>>' = <<builder.entry, [Metadata |-> builder.Metadata,
                                                        Changes |-> builder.Changes]>>

\* C16: a call of Build changes neither the builder (its entry, its map,
\* its changes) nor the bound and the default service nor the store; and
\* no step other than a call of Build changes what the entry that Build
\* returned reads as.
C16_BuildIsSnapshot ==
    [][IF built' # built \/ builtRefs' # builtRefs
       THEN /\ BuildStep
            /\ UNCHANGED <<builder, heap, defaultService, store, client, indexes>>
       ELSE EntryView(heap, built, builtRefs)' = EntryView(heap, built, builtRefs)]_vars

(***************************************************************************)
(* Construction: a caller constructs the repository from a configuration   *)
(* of its choice, again when construction failed; once a repository        *)
(* exists, another caller logs an entry.                                   *)
(***************************************************************************)
ConfigInputs ==
    [MongoURI : {"", "mongodb://localhost:27017"},
     DatabaseName : {"", "audit"},
     CollectionName : {"", "audit_logs"},
     MaxRetries : -1..MaxRetriesBound,
     RetryDelay : -1..MaxDelay,
     BatchSize : {-1, 0, 1},
     EnableIndexes : BOOLEAN]

InitConfig ==
    /\ config = NoConfigs
    /\ client = NoClients
    /\ indexes = {}
    /\ store = {}
    /\ InitNoCalls

NextConfig ==
    \/ \E c \in Readers, cfg \in ConfigInputs :
          client["svc"] = "none" /\ NewMongoRepository(c, cfg)
    \/ \E c \in Writers :
          \/ /\ client["svc"] = "connected" /\ pc[c] = "idle"
             /\ LogAction("svc", c, BaseEntry, MaxTime)
          \/ InsertAttempt(c)
          \/ InsertSleep(c)

SpecConfig == InitConfig /\ [][NextConfig]_vars

\* What the specification requires of a configuration, stated on its fields.
ConfigIsValid(cfg) ==
    /\ cfg.MongoURI # "" /\ cfg.DatabaseName # "" /\ cfg.CollectionName # ""
    /\ cfg.MaxRetries >= 0
    /\ cfg.RetryDelay >= 0
    /\ cfg.BatchSize > 0

\* C17: construction from a configuration with an empty URI, database or
\* collection name, a negative retry count or delay or a non-positive batch
\* size fails with a configuration error and attempts no connection; from
\* every other configuration it goes on to connect; and the configuration
\* of a constructed repository is the valid one it was constructed from,
\* so that MaxRetries >= 0 and every Insert makes an attempt.
C17_ConfigValidatedFirst ==
    /\ \A c \in Callers :
          op[c] = "NewMongoRepository" =>
             IF ConfigIsValid(arg[c].config)
             THEN /\ ret[c].err.msg # "invalid config"
                  /\ obs[c].connects = 1
                  /\ ret[c].err = NoErr <=> ~ret[c].isNil
                  /\ ret[c].err = NoErr =>
                        (client["svc"] = "connected" /\ config["svc"] = arg[c].config)
             ELSE /\ ret[c].err.msg = "invalid config"
                  /\ ret[c].isNil
                  /\ obs[c].connects = 0 /\ obs[c].storeOps = 0
                  /\ client["svc"] = "none"
    /\ client["svc"] = "none" => (config["svc"] = ZeroConfig /\ store = {})
    /\ client["svc"] # "none" =>
          /\ ConfigIsValid(config["svc"]) /\ config["svc"].MaxRetries >= 0
          /\ \A c \in Callers :
                (InsertCalled(c) /\ pc[c] = "done") => obs[c].inserts >= 1

\* A configuration whose only defect is a retry count of -1 was rejected,
\* no connection attempted.
C17_Witness ==
    \E c \in Callers :
        /\ op[c] = "NewMongoRepository" /\ pc[c] = "done"
        /\ arg[c].config = [DefaultConfig EXCEPT !.MaxRetries = -1,
                                                 !.RetryDelay = MaxDelay,
                                                 !.BatchSize = 1]
        /\ ret[c].err = Err("invalid config", 0, "MaxRetries")
        /\ obs[c].connects = 0
        /\ client["svc"] = "none"

C19_OneEntryPerInsert ==
    /\ \A c \in Callers :
          InsertCalled(c) =>
             \A i \in 1..Len(obs[c].written) :
                /\ obs[c].written[i].ID = ins[c].entry.ID
                /\ obs[c].written[i].Timestamp = ins[c].entry.Timestamp
                /\ obs[c].written[i] = obs[c].written[1]
    /\ \A d \in store :
          \/ d = EarlierEntry
          \/ \E c \in Callers : InsertCalled(c) /\ d = ins[c].entry
    /\ Cardinality(store \ {EarlierEntry})
          <= Cardinality({c \in Callers : InsertCalled(c)})

\* The first attempt's write was applied and reported as failed, the retry
\* was refused as a duplicate, and the call returned an error: the
\* collection holds the entry once.
C19_Witness ==
    \E c \in Callers :
        /\ InsertCalled(c) /\ pc[c] = "done"
        /\ IsZeroID(arg[c].entry.ID)
        /\ obs[c].inserts = 2
        /\ obs[c].lastErr = "duplicate key"
        /\ ret[c].err.cause = "duplicate key"
        /\ store = {EarlierEntry, ins[c].entry}

(***************************************************************************)
(* A further claim about the read path (checked under SpecRead, where a    *)
(* writer's Insert can fall between the count and the find of a query).    *)
(***************************************************************************)
\* C20: in every result of FindByQuery the number of returned entries is
\* at most Total, and Total is the number of matching entries in the
\* collection the returned page was taken from.
C20_TotalCoversPage ==
    \A c \in Callers :
        Answered(c) =>
            /\ Len(ret[c].Entries) <= ret[c].Total
            /\ ret[c].Total = Cardinality(Matching(obs[c].found, arg[c].query))

(***************************************************************************)
(* The binding of a builder: over services constructed with different     *)
(* retry counts, the default service is set, changed and cleared, a        *)
(* builder is created and filled, and then its entry is logged.            *)
(***************************************************************************)
\* Every service constructed, the n-th with n - 1 retries.
InitBinding ==
    /\ config = [s \in Services |->
                   [DefaultConfig EXCEPT !.MaxRetries =
                       (CHOOSE n \in 1..MaxServices : ServiceName(n) = s) - 1]]
    /\ client = [s \in Services |-> "connected"]
    /\ indexes = RepositoryIndexes
    /\ store = {}
    /\ InitNoCalls

NextBinding ==
    \/ \E service \in Services \cup {"none"} :
          (\A c \in Callers : pc[c] = "idle") /\ SetDefaultService(service)
    \/ NewAuditBuilder(MaxTime)
    \/ Action("create")
    \/ Actor("u1", "user")
    \/ Resource("doc", "r1")
    \/ \E c \in Writers : pc[c] = "idle" /\ Log(c, MaxTime)
    \/ \E c \in Writers : InsertAttempt(c) \/ InsertSleep(c)

SpecBinding == InitBinding /\ [][NextBinding]_vars

\* C21: a builder made by NewAuditBuilder is bound to the default service of
\* the moment of its creation (to none when none was set); no later step,
\* a SetDefaultService in particular, changes the service of a builder; and
\* Log of a builder bound to no service returns ErrNoServiceConfigured
\* whatever the default is by then, while Log of a builder bound to a
\* service is that service's LogAction of the builder's entry, retried as
\* that service's repository is configured.
C21_BoundAtCreation ==
    [][/\ builder'.serial # builder.serial =>
             builder'.service = defaultService
       /\ (builder.alive /\ builder'.serial = builder.serial) =>
             builder'.service = builder.service
       /\ \A c \in Callers :
             /\ CallStarts(c) =>
                   IF builder.service = "none"
                   THEN op'[c] = "Log" /\ ReturnedNoService(c)
                   ELSE /\ op'[c] = "LogAction"
                        /\ arg'[c].service = builder.service
                        /\ arg'[c].entry = builder.entry
             /\ op'[c] = "LogAction" =>
                   obs'[c].inserts <= config[arg'[c].service].MaxRetries + 1]_vars

\* A builder was created while no default service was set; the default was
\* set afterwards, and then Log returned ErrNoServiceConfigured without a
\* store operation.
C21_Witness ==
    /\ builder.alive /\ builder.service = "none"
    /\ defaultService = "svc"
    /\ validateAuditEntry(builder.entry) = ""
    /\ \E c \in Writers :
          /\ op[c] = "Log" /\ pc[c] = "done"
          /\ ret[c].err = ErrNoServiceConfigured
          /\ obs[c].storeOps = 0
    /\ store = {}

(***************************************************************************)
(* The life cycle of the default service: one caller initializes the       *)
(* package (from a valid or an invalid configuration, every construction   *)
(* naming the same collection) and shuts it down, any number of times; a   *)
(* builder is created; another caller makes one call of a package-level    *)
(* operation or logs the builder's entry as it is.                         *)
(***************************************************************************)
LifecycleConfigs == {NoRetryConfig, ZeroConfig}

InitLifecycle ==
    /\ config = NoConfigs
    /\ client = NoClients
    /\ indexes = {}
    /\ store \in {{}, {EarlierEntry}}
    /\ InitNoCalls

NextLifecycle ==
    \/ \E c \in Readers :
          \/ \E cfg \in LifecycleConfigs : Initialize(c, cfg)
          \/ Shutdown(c)
    \/ NewAuditBuilder(MaxTime)
    \/ \E c \in Writers :
          \/ pc[c] = "idle" /\ Log(c, MaxTime)
          \/ pc[c] = "idle" /\ AuditLogAction(c, BaseEntry, MaxTime)
          \/ pc[c] = "idle" /\ AuditGetHistory(c, ZeroQuery)
          \/ pc[c] = "idle" /\ AuditGetByID(c, Hex(EarlierEntry.ID))
          \/ pc[c] = "idle" /\ AuditGetResourceHistory(c, "doc", "r1", 0)
          \/ pc[c] = "idle" /\ AuditGetActorHistory(c, "u1", "", 0)
          \/ InsertAttempt(c)
          \/ FindByQueryCount(c)
          \/ FindByQueryFind(c)
          \/ FindByIDFindOne(c)
          \/ FindByResourceFind(c)
          \/ FindByActorFind(c)

SpecLifecycle == InitLifecycle /\ [][NextLifecycle]_vars

\* C22: Shutdown with no default service set returns nil and changes
\* nothing; with a default set it is that service's Close, which
\* disconnects the service's client and leaves the default set; the
\* default changes only in a successful Initialize, to the service just
\* constructed, and that step closes no client, the previous default's
\* included; and with a default set, closed or not, a package-level
\* operation never returns ErrNoServiceConfigured but is the default
\* service's method, and a new builder is bound to the default.
C22_ShutdownKeepsDefault ==
    [][/\ \A c \in Readers :
             (CallStarts(c) /\ op'[c] # "audit.Initialize") =>
                IF defaultService = "none"
                THEN /\ op'[c] = "audit.Shutdown"
                     /\ pc'[c] = "done" /\ ret'[c] = NoRet
                     /\ UNCHANGED <<config, client, indexes, store,
                                    defaultService, builder>>
                ELSE /\ op'[c] = "Close" /\ pc'[c] = "done"
                     /\ arg'[c].service = defaultService
                     /\ client'[defaultService] = "disconnected"
                     /\ ret'[c].err.msg = ErrClientDisconnected <=>
                           client[defaultService] = "disconnected"
                     /\ defaultService' = defaultService
       /\ \A s \in Services :
             (client[s] = "connected" /\ client'[s] = "disconnected") =>
                s = defaultService /\ defaultService' = defaultService
       /\ \A s \in Services :
             (client[s] = "none" /\ client'[s] # "none") =>
                /\ client'[s] = "connected" /\ defaultService' = s
                /\ \A o \in Services \ {s} : client'[o] = client[o]
                /\ \E c \in Readers :
                      /\ op'[c] = "audit.Initialize" /\ ret'[c].err = NoErr
                      /\ config'[s] = arg'[c].config
       /\ defaultService' # defaultService =>
             client[defaultService'] = "none"
       /\ \A c \in Readers :
             (CallStarts(c) /\ op'[c] = "audit.Initialize"
                 /\ ret'[c].err # NoErr) =>
                UNCHANGED <<config, client, store, defaultService>>
       /\ \A c \in Writers :
             CallStarts(c) =>
                IF op'[c] = "Log"
                THEN builder.service = "none" /\ ReturnedNoService(c)
                ELSE IF op'[c] \in UnboundOps
                THEN defaultService = "none" /\ ReturnedNoService(c)
                ELSE /\ ret'[c].err # ErrNoServiceConfigured
                     /\ \/ arg'[c].service = defaultService
                        \/ /\ op'[c] = "LogAction" /\ builder.alive
                           /\ arg'[c].service = builder.service
       /\ builder'.serial # builder.serial =>
             builder'.service = defaultService]_vars

\* The package was initialized twice and then shut down twice: the second
\* service is still the default and is closed (the second Shutdown was its
\* Close again, and failed), the first service was never closed, and the
\* package-level LogAction went to the closed default, whose repository
\* could not write.
C22_Witness ==
    /\ defaultService = "svc2"
    /\ client["svc"] = "connected" /\ client["svc2"] = "disconnected"
    /\ \E c \in Readers :
          /\ op[c] = "Close" /\ pc[c] = "done" /\ arg[c].service = "svc2"
          /\ ret[c].err.msg = ErrClientDisconnected
    /\ \E c \in Writers :
          /\ op[c] = "LogAction" /\ pc[c] = "done"
          /\ arg[c].service = "svc2" /\ arg[c].entry = BaseEntry
          /\ obs[c].delegated = 1 /\ obs[c].inserts = 1
          /\ ret[c].err = InsertFailed(config["svc2"], ErrClientDisconnected)
    /\ store = {}

====
